---- MODULE Spec2Model ----
(***************************************************************************)
(* Model of the write-debounce / local-fallback / force-sync logic of the  *)
(* DataSync class (src/data-sync.js) together with the Firestore gateway   *)
(* FirebaseCore.updateDocument it calls, and of the document upload of     *)
(* DocumentManager (src/unnamed/part_000).                                 *)
(*                                                                         *)
(* JavaScript runs every handler to completion: one action of this module  *)
(* is one run-to-completion segment (an API call up to its first await, a  *)
(* timer callback up to its first await, or the continuation after an      *)
(* awaited gateway call settles).                                          *)
(***************************************************************************)
EXTENDS Integers, Sequences, FiniteSets, TLC

VARIABLES
    userId,          \* this.userId (NULL when signed out)
    authObserved,    \* the auth observer has been called at least once
    syncStatus,      \* this.syncStatus
    unsubscribers,   \* this.unsubscribers (number of handles held)
    pendingWrites,   \* this.pendingWrites : write-key -> timeout id
    timers,          \* scheduled, not yet fired debounce timeouts
    delayed,         \* other scheduled timeouts (_startSync's 1500 ms one)
    nextId,          \* next id handed out by setTimeout / next pass id
    inflight,        \* flush callbacks awaiting FirebaseCore.updateDocument
    saves,           \* save*Data calls awaiting FirebaseCore.updateDocument
    passes,          \* forceSync calls awaiting FirebaseCore.updateDocument
    localStorage,    \* window.localStorage : key -> JSON text
    remote,          \* Firestore documents : path -> document
    calls,           \* number of API calls and sign-in/sign-out events so far
    burst,           \* history: the current rapid sequence of each write-key
    recorded,        \* history: last payload recorded per singleton key
    backlogOf,       \* history: origin of each singleton key's backlog entry
    syncListeners,   \* this.syncListeners, in registration order
    delivered,       \* history: listener invocations since the last outside event
    uploads,         \* DocumentManager.uploadDocument calls awaiting storage or Firestore
    blobs,           \* Firebase Storage : the paths that hold a file
    storageFull,     \* localStorage.setItem throws QuotaExceededError
    firebaseCore,    \* the module variables app, auth, db, storage, isFirebaseInitialized
    authManager,     \* AuthManager's fields auth, initialized, initPromise
    authCalls,       \* AuthManager calls awaiting this.initPromise
    trace,           \* history: calls of the SDK and of _doInitialize so far
    last             \* history: the segment that ran last

vars == <<userId, authObserved, syncStatus, unsubscribers, pendingWrites, timers,
          delayed, nextId, inflight, saves, passes, localStorage, remote, calls,
          burst, recorded, backlogOf, syncListeners, delivered, uploads, blobs,
          storageFull, firebaseCore, authManager, authCalls, trace, last>>

-----------------------------------------------------------------------------
(* Bounds of the exploration *)

MaxCalls == 3

(* Program constants *)

writeDebounceMs == 500
initialSyncDelayMs == 1500
reconnectDelayMs == 1000

(* Granularity of the modelled clock: one step per debounce interval. *)
TickMs == writeDebounceMs

-----------------------------------------------------------------------------
(* Input domains *)

NULL == "null"
Users == {"u1"}
Collections == {"forms", "users"}
DocIds == {"d1"}
FieldNames == {"firstName"}
Values == {"X", "Y"}

(* Payload objects handed to saveCompleteFormData / saveProgressData /
   saveSettings: one object per value. *)
Payloads == {[f \in FieldNames |-> v] : v \in Values}

SingletonKeys == {"formData", "progressData", "settings"}

(* The fields of a form document that are edited while signed out. *)
BacklogFields == FieldNames \cup {"lastName"}

(* Status callbacks the application may register; those of Throwers throw
   whenever they are invoked. *)
Callbacks == {"a", "b", "t"}
Throwers == {"t"}

-----------------------------------------------------------------------------
(* JavaScript values and JSON *)

JSNull == [isNull |-> "null"]
EmptyObject == [f \in {} |-> ""]
Braces == <<"{", "}">>

(* What localStorage.getItem returns for a key that is not stored. *)
NullItem == {}

(* JSON.stringify of an object: its text, as the set of its members. *)
JSONstringify(obj) == {Braces} \cup {<<f, obj[f]>> : f \in DOMAIN obj}

(* JSON.parse: JSON.parse(null) is null; an object text gives the object. *)
JSONparse(text) ==
    IF text = NullItem THEN JSNull
    ELSE LET members == text \ {Braces}
         IN  [f \in {m[1] : m \in members} |-> CHOOSE v \in {m[2] : m \in members} : <<f, v>> \in members]

(* new Date().toISOString(): the clock's value is not modelled. *)
ISONow == "<iso8601>"
ServerTimestamp == "<serverTimestamp>"

StartsWith(s, p) == Len(s) >= Len(p) /\ SubSeq(s, 1, Len(p)) = p

getItem(ls, key) == IF key \in DOMAIN ls THEN ls[key] ELSE NullItem

setItem(ls, key, text) == [k \in DOMAIN ls \cup {key} |-> IF k = key THEN text ELSE ls[k]]

removeItem(ls, key) == [k \in DOMAIN ls \ {key} |-> ls[k]]

(* Object spread / field assignment: later members win. *)
Assign(obj, data) ==
    [f \in DOMAIN obj \cup DOMAIN data |-> IF f \in DOMAIN data THEN data[f] ELSE obj[f]]

Field(name, value) == [f \in {name} |-> value]

-----------------------------------------------------------------------------
(* Keys *)

WriteKey(collection, docId, fieldName) == collection \o "." \o docId \o "." \o fieldName

StorageKey(collection, docId) == collection \o "_" \o docId

WriteKeys == {WriteKey(c, d, f) : c \in Collections, d \in DocIds, f \in FieldNames}

UserPath(uid) == "users/" \o uid

-----------------------------------------------------------------------------
(* DataSync._saveToLocalStorage *)

(* A variant that starts from an empty object instead of the stored one. *)
_saveToLocalStorageFresh(ls, collection, docId, fieldName, value) ==
    setItem(ls, StorageKey(collection, docId),
            JSONstringify(Assign(Field(fieldName, value), Field("_lastUpdated", ISONow))))

_saveToLocalStorage(ls, collection, docId, fieldName, value) ==
    LET key == StorageKey(collection, docId)
        existing == getItem(ls, key)
        data == IF existing # NullItem THEN JSONparse(existing) ELSE EmptyObject
        data1 == Assign(data, Field(fieldName, value))
        data2 == Assign(data1, Field("_lastUpdated", ISONow))
    IN  setItem(ls, key, JSONstringify(data2))

(* updateDocument: docRef.update({...data, updatedAt}) merges into the document. *)
updateDocument(rem, path, data) ==
    LET doc == IF path \in DOMAIN rem THEN rem[path] ELSE EmptyObject
        merged == Assign(doc, Assign(data, Field("updatedAt", ServerTimestamp)))
    IN  [p \in DOMAIN rem \cup {path} |-> IF p = path THEN merged ELSE rem[p]]

-----------------------------------------------------------------------------
(* History helpers *)

NoBurst == [lastValue |-> "", flushes |-> 0, flushed |-> ""]

(* The bookkeeping of one forceSync pass: the keys it enumerated, how often it
   visited each, how often it called the gateway for each, and the outcomes. *)
NoPass == [keys |-> {}, visits |-> [k \in {} |-> 0], attempts |-> [k \in {} |-> 0],
           accepted |-> {}, rejected |-> {}, afterFailure |-> {}]

(* The segment that ran last: which handler, on which key, with which value,
   the payload involved, the pass it belongs to, and whether the pass ended. *)
(* What a pass's write met: whether the key's backlog entry had been superseded
   by a newer recorded payload, whether the entry was rewritten while the write
   was awaited, and the payload the storage held when the write settled. *)
Note(superseded, overwritten, held) ==
    [superseded |-> superseded, overwritten |-> overwritten, held |-> held]

NoNote == Note(FALSE, FALSE, JSNull)

(* How the promise of an async call settled, and with what: no call has ended,
   `return value` or the end of the body, or an exception that left the body. *)
NoResult == [state |-> "none", value |-> JSNull]

Undefined == [isUndefined |-> "undefined"]

JSTrue == [isBoolean |-> "true"]
JSFalse == [isBoolean |-> "false"]

Fulfilled(value) == [state |-> "fulfilled", value |-> value]

(* The exceptions of the modelled collaborators *)
QuotaExceededError == "QuotaExceededError"
ListenerError == "ListenerError"
GatewayError == "GatewayError"

Rejected(error) == [state |-> "rejected", value |-> [error |-> error]]

Last(op, key, value, data, pass, done, note) ==
    [op |-> op, key |-> key, value |-> value, data |-> data, pass |-> pass, done |-> done,
     note |-> note, target |-> <<>>, result |-> NoResult]

(* The segment was run for the field change (collection, docId, fieldName). *)
For(l, collection, docId, fieldName) == [l EXCEPT !.target = <<collection, docId, fieldName>>]

(* The segment ended an API call whose promise settled as `result`. *)
Returned(l, result) == [l EXCEPT !.result = result]

Other == Last("other", "", "", JSNull, NoPass, FALSE, NoNote)

Max(a, b) == IF a > b THEN a ELSE b

-----------------------------------------------------------------------------
(* The module variables of the Firebase core when its script has not yet run
   (lines 654-658), with window.FirebaseCore (line 866) not yet assigned *)
FirebaseCoreAtLoad ==
    [defined |-> FALSE, app |-> JSNull, auth |-> JSNull, db |-> JSNull, storage |-> JSNull,
     isFirebaseInitialized |-> FALSE]

(* AuthManager's constructor; `attempts` is the local counter of _doInitialize *)
AuthManagerConstructed ==
    [auth |-> JSNull, initialized |-> FALSE, initPromise |-> "null", attempts |-> 0]

(* The state a newly constructed DataSync is in, on a first visit: the
   browser's storage holds nothing yet.  The Firebase core and the AuthManager
   are in the state their scripts' first statements leave. *)
Init ==
    /\ userId = NULL
    /\ authObserved = FALSE
    /\ syncStatus = "synced"
    /\ unsubscribers = 0
    /\ pendingWrites = [k \in {} |-> 0]
    /\ timers = {}
    /\ delayed = {}
    /\ nextId = 1
    /\ inflight = {}
    /\ saves = {}
    /\ passes = {}
    /\ localStorage = [k \in {} |-> NullItem]
    /\ remote = [p \in {} |-> EmptyObject]
    /\ calls = 0
    /\ burst = [k \in WriteKeys |-> NoBurst]
    /\ recorded = [k \in SingletonKeys |-> JSNull]
    /\ backlogOf = [k \in SingletonKeys |-> "none"]
    /\ syncListeners = <<>>
    /\ delivered = <<>>
    /\ uploads = {}
    /\ blobs = {}
    /\ storageFull = FALSE
    /\ firebaseCore = FirebaseCoreAtLoad
    /\ authManager = AuthManagerConstructed
    /\ authCalls = {}
    /\ trace = [initializeAppCalls |-> 0, doInitializeRuns |-> 0, observers |-> 0]
    /\ last = Last("init", "", "", JSNull, NoPass, FALSE, NoNote)

-----------------------------------------------------------------------------
(* DataSync._notifySyncListeners: the status it leaves in this.syncStatus *)

_notifySyncListeners(status) == status

(* The forEach of _notifySyncListeners: the listeners it invokes, in order.  An
   exception thrown by a listener leaves forEach, so the listeners after the
   first thrower are not reached. *)
ThrowAt(ls) ==
    IF \E i \in 1..Len(ls) : ls[i] \in Throwers
    THEN CHOOSE i \in 1..Len(ls) : ls[i] \in Throwers /\ \A j \in 1..(i - 1) : ls[j] \notin Throwers
    ELSE 0

Invoked(ls) == IF ThrowAt(ls) = 0 THEN ls ELSE SubSeq(ls, 1, ThrowAt(ls))

(* A variant of forEach that walks the listeners from the last to the first. *)
DeliveriesReversed(ls, status, from, by) ==
    [i \in 1..Len(Invoked(ls)) |->
        [listener |-> Invoked(ls)[Len(Invoked(ls)) + 1 - i], status |-> status,
         from |-> from, by |-> by]]

(* A variant of _notifySyncListeners that skips a status equal to the current one. *)
DeliveriesDeduplicated(ls, status, from, by) ==
    IF status = from THEN <<>>
    ELSE [i \in 1..Len(Invoked(ls)) |->
             [listener |-> Invoked(ls)[i], status |-> status, from |-> from, by |-> by]]

(* The invocations one call of _notifySyncListeners(status) makes: `from` is the
   status it replaces and `by` the id of the timeout on whose behalf it runs
   (0 when there is none). *)
Deliveries(ls, status, from, by) ==
    [i \in 1..Len(Invoked(ls)) |->
        [listener |-> Invoked(ls)[i], status |-> status, from |-> from, by |-> by]]

(* _notifySyncListeners ends with an exception of one of the listeners *)
Throws == ThrowAt(syncListeners) # 0

(* DataSync._stopSync: every handle is called, the list is emptied *)
_stopSync == 0

(* DataSync._startSync: the four subscriptions it adds *)
SubscriptionsPerStart == 4

(* The auth observer registered in DataSync._init.  The provider calls it once
   with the identity found at start-up, then on every sign-in and sign-out. *)
onAuthStateChanged(user) ==
    /\ IF authObserved
       THEN /\ user # userId
            /\ calls < MaxCalls
            /\ calls' = calls + 1
       ELSE calls' = calls
    /\ authObserved' = TRUE
    /\ userId' = user
    /\ IF user # NULL
       THEN /\ unsubscribers' = unsubscribers + SubscriptionsPerStart
            /\ delayed' = delayed \cup {[id |-> nextId, kind |-> "initialSync", left |-> initialSyncDelayMs]}
            /\ nextId' = nextId + 1
            /\ syncStatus' = _notifySyncListeners("syncing")
       ELSE /\ unsubscribers' = _stopSync
            /\ syncStatus' = _notifySyncListeners("offline")
            /\ UNCHANGED <<delayed, nextId>>
    /\ delivered' = Deliveries(syncListeners, syncStatus', syncStatus, 0)
    /\ last' = Last("auth", user, "", JSNull, NoPass, FALSE, NoNote)
    /\ UNCHANGED <<firebaseCore, authManager, authCalls, trace, uploads, blobs, storageFull, pendingWrites, timers, inflight, saves, passes, localStorage,
                   remote, burst, recorded, backlogOf, syncListeners>>

(* The timeout callback scheduled by _startSync *)
InitialSyncTimeout(t) ==
    /\ t \in delayed
    /\ t.kind = "initialSync"
    /\ t.left = 0
    /\ delayed' = delayed \ {t}
    /\ syncStatus' = _notifySyncListeners("synced")
    /\ delivered' = delivered \o Deliveries(syncListeners, "synced", syncStatus, 0)
    /\ last' = Last("initialSyncTimeout", "", "", JSNull, NoPass, FALSE, NoNote)
    /\ UNCHANGED <<firebaseCore, authManager, authCalls, trace, uploads, blobs, storageFull, userId, authObserved, unsubscribers, pendingWrites, timers, nextId,
                   inflight, saves, passes, localStorage, remote, calls, burst,
                   recorded, backlogOf, syncListeners>>

-----------------------------------------------------------------------------
(* Passage of time: every scheduled timeout comes TickMs closer; a timeout
   that is due runs before the clock moves on. *)

Age(t) == [t EXCEPT !.left = Max(0, t.left - TickMs)]

Tick ==
    /\ \A t \in timers \cup delayed : t.left > 0
    /\ timers \cup delayed # {}
    /\ timers' = {Age(t) : t \in timers}
    /\ delayed' = {Age(t) : t \in delayed}
    /\ last' = Other
    /\ UNCHANGED <<firebaseCore, authManager, authCalls, trace, uploads, blobs, storageFull, userId, authObserved, syncStatus, unsubscribers, pendingWrites, nextId,
                   inflight, saves, passes, localStorage, remote, calls, burst, recorded,
                   backlogOf, syncListeners, delivered>>

-----------------------------------------------------------------------------
(* DataSync.saveFormData *)

MapSet(m, key, value) == [k \in DOMAIN m \cup {key} |-> IF k = key THEN value ELSE m[k]]

MapDelete(m, key) == [k \in DOMAIN m \ {key} |-> m[k]]

(* A variant of the cancellation that clears every scheduled timeout. *)
ClearPendingAll(ts, pw, key) == IF key \in DOMAIN pw THEN {} ELSE ts

(* clearTimeout of the handle stored for the key, when the map has the key *)
ClearPending(ts, pw, key) ==
    IF key \in DOMAIN pw THEN {t \in ts : t.id # pw[key]} ELSE ts

(* A variant of the unauthenticated branch that hands the change to the
   debounce map only and stores nothing. *)
SaveOfflineNotStored(ls, collection, docId, fieldName, value) == ls

(* The storage the unauthenticated branch leaves *)
SaveOffline(ls, collection, docId, fieldName, value) ==
    _saveToLocalStorage(ls, collection, docId, fieldName, value)

(* A variant of the unauthenticated branch that announces "syncing" first. *)
SaveOfflineAnnounced(ls, from) == Deliveries(ls, "syncing", from, 0)

(* What the unauthenticated branch delivers to the listeners: it returns
   before the notification of the authenticated branch is reached. *)
SaveOfflineDelivered(ls, from) == <<>>

saveFormData(collection, docId, fieldName, value) ==
    LET key == WriteKey(collection, docId, fieldName)
        rapid == \E t \in timers : t.key = key /\ t.cur /\ t.left > 0
        kept == ClearPending(timers, pendingWrites, key)
        timeout == [id |-> nextId, collection |-> collection, docId |-> docId,
                    fieldName |-> fieldName, value |-> value, key |-> key,
                    left |-> writeDebounceMs, cur |-> TRUE, uid |-> userId]
        here(l) == For(l, collection, docId, fieldName)
    IN
    /\ calls < MaxCalls
    /\ calls' = calls + 1
    /\ IF userId = NULL
       THEN /\ IF storageFull
               THEN \* setItem throws: the exception leaves _saveToLocalStorage and the call
                    /\ localStorage' = localStorage
                    /\ last' = Returned(here(Last("saveFormDataOfflineQuota",
                                    StorageKey(collection, docId), value,
                                    Field(fieldName, value), NoPass, FALSE, NoNote)),
                                    Rejected(QuotaExceededError))
               ELSE /\ localStorage' = SaveOffline(localStorage, collection, docId, fieldName, value)
                    /\ last' = Returned(here(Last("saveFormDataOffline",
                                    StorageKey(collection, docId), value,
                                    Field(fieldName, value), NoPass, FALSE, NoNote)),
                                    Fulfilled(Undefined))
            /\ delivered' = SaveOfflineDelivered(syncListeners, syncStatus)
            /\ UNCHANGED <<syncStatus, pendingWrites, timers, nextId, burst>>
       ELSE /\ syncStatus' = _notifySyncListeners("syncing")
            /\ delivered' = Deliveries(syncListeners, "syncing", syncStatus, nextId)
            /\ IF Throws
               THEN \* the exception leaves saveFormData before the timeout is scheduled
                    /\ last' = Returned(here(Last("saveFormDataThrown", key, value, JSNull,
                                                  NoPass, FALSE, NoNote)),
                                        Rejected(ListenerError))
                    /\ UNCHANGED <<timers, pendingWrites, nextId, burst>>
               ELSE /\ timers' = {IF t.key = key /\ ~rapid THEN [t EXCEPT !.cur = FALSE] ELSE t : t \in kept}
                                    \cup {timeout}
                    /\ pendingWrites' = MapSet(pendingWrites, key, nextId)
                    /\ nextId' = nextId + 1
                    /\ burst' = [burst EXCEPT ![key] =
                                    IF rapid
                                    THEN [@ EXCEPT !.lastValue = value]
                                    ELSE [lastValue |-> value, flushes |-> 0, flushed |-> ""]]
                    /\ last' = Returned(here(Last("saveFormData", key, value, JSNull,
                                                  NoPass, FALSE, NoNote)),
                                        Fulfilled(Undefined))
            /\ UNCHANGED localStorage
    /\ UNCHANGED <<firebaseCore, authManager, authCalls, trace, uploads, blobs, storageFull, userId, authObserved, unsubscribers, delayed, inflight, saves, passes,
                   remote, recorded, backlogOf, syncListeners>>

(* The timeout callback of saveFormData, up to its await *)
FlushStart(t) ==
    /\ t \in timers
    /\ t.left = 0
    /\ \A u \in timers : u.left = 0 => u.id >= t.id
    /\ timers' = timers \ {t}
    /\ inflight' = inflight \cup
          {[id |-> t.id, collection |-> t.collection, docId |-> t.docId,
            fieldName |-> t.fieldName, value |-> t.value, key |-> t.key,
            uid |-> t.uid, path |-> UserPath(userId),
            data |-> Assign(Field(t.fieldName, t.value), Field("lastUpdated", ISONow))]}
    /\ burst' = [burst EXCEPT ![t.key] =
                    IF t.cur
                    THEN [@ EXCEPT !.flushes = @ + 1,
                                   !.flushed = IF burst[t.key].flushes = 0 THEN t.value ELSE @]
                    ELSE @]
    /\ last' = For(Last("flushStart", t.key, t.value, JSNull, NoPass, FALSE, NoNote),
                    t.collection, t.docId, t.fieldName)
    /\ UNCHANGED <<firebaseCore, authManager, authCalls, trace, uploads, blobs, storageFull, userId, authObserved, syncStatus, unsubscribers, pendingWrites, delayed,
                   nextId, saves, passes, localStorage, remote, calls, recorded, backlogOf,
                   syncListeners, delivered>>

(* The callback's continuation when updateDocument resolved *)
FlushResolved(w) ==
    /\ w \in inflight
    /\ inflight' = inflight \ {w}
    /\ remote' = updateDocument(remote, w.path, w.data)
    /\ IF Throws
       THEN \* the exception of the "synced" notice is caught by the callback's own
            \* catch block, whose "error" notice throws again and leaves the callback
            /\ syncStatus' = _notifySyncListeners("error")
            /\ delivered' = delivered \o Deliveries(syncListeners, "synced", syncStatus, w.id)
                                      \o Deliveries(syncListeners, "error", "synced", w.id)
            /\ last' = For(Last("flushResolvedThrown", StorageKey(w.collection, w.docId),
                                w.value, Field(w.fieldName, w.value), NoPass, FALSE, NoNote),
                            w.collection, w.docId, w.fieldName)
            /\ UNCHANGED pendingWrites
       ELSE /\ syncStatus' = _notifySyncListeners("synced")
            /\ delivered' = delivered \o Deliveries(syncListeners, "synced", syncStatus, w.id)
            /\ pendingWrites' = MapDelete(pendingWrites, w.key)
            /\ last' = For(Last("flushResolved", w.key, w.value, JSNull, NoPass, FALSE, NoNote),
                            w.collection, w.docId, w.fieldName)
    /\ UNCHANGED <<firebaseCore, authManager, authCalls, trace, uploads, blobs, storageFull, userId, authObserved, unsubscribers, timers, delayed, nextId, saves,
                   passes, localStorage, calls, burst, recorded, backlogOf, syncListeners>>

(* The status and the storage the catch block of the callback leaves *)
FlushCatchStatus == _notifySyncListeners("error")

(* A variant of the catch block that stores the value the storage already
   holds for the field instead of the one that failed. *)
FlushCatchStorageStale(ls, w) ==
    LET existing == getItem(ls, StorageKey(w.collection, w.docId))
        old == IF existing # NullItem THEN JSONparse(existing) ELSE EmptyObject
    IN  IF w.fieldName \in DOMAIN old
        THEN _saveToLocalStorage(ls, w.collection, w.docId, w.fieldName, old[w.fieldName])
        ELSE ls

(* A variant of the catch block without the fallback write. *)
FlushCatchStorageDropped(ls, w) == ls

FlushCatchStorage(ls, w) ==
    _saveToLocalStorage(ls, w.collection, w.docId, w.fieldName, w.value)

(* The callback's continuation when updateDocument rejected *)
FlushRejected(w) ==
    /\ w \in inflight
    /\ inflight' = inflight \ {w}
    /\ syncStatus' = FlushCatchStatus
    /\ delivered' = delivered \o Deliveries(syncListeners, FlushCatchStatus, syncStatus, w.id)
    /\ IF Throws
       THEN \* the exception leaves the catch block before its fallback write
            /\ last' = For(Last("flushRejectedThrown", StorageKey(w.collection, w.docId),
                                w.value, Field(w.fieldName, w.value), NoPass, FALSE, NoNote),
                            w.collection, w.docId, w.fieldName)
            /\ UNCHANGED <<localStorage, pendingWrites>>
       ELSE IF storageFull
       THEN \* setItem throws inside the catch block: the exception leaves the timeout
            \* callback, whose promise nobody holds; line 253 is not reached
            /\ last' = For(Last("flushRejectedQuota", StorageKey(w.collection, w.docId),
                                w.value, Field(w.fieldName, w.value), NoPass, FALSE, NoNote),
                            w.collection, w.docId, w.fieldName)
            /\ UNCHANGED <<localStorage, pendingWrites>>
       ELSE /\ localStorage' = FlushCatchStorage(localStorage, w)
            /\ pendingWrites' = MapDelete(pendingWrites, w.key)
            /\ last' = For(Last("flushRejected", StorageKey(w.collection, w.docId), w.value,
                                Field(w.fieldName, w.value), NoPass, FALSE, NoNote),
                            w.collection, w.docId, w.fieldName)
    /\ UNCHANGED <<firebaseCore, authManager, authCalls, trace, uploads, blobs, storageFull, userId, authObserved, unsubscribers, timers, delayed, nextId, saves,
                   passes, remote, calls, burst, recorded, backlogOf, syncListeners>>

-----------------------------------------------------------------------------
(* DataSync.saveCompleteFormData, saveProgressData, saveSettings *)

RemoteField(key) ==
    CASE key = "formData" -> "forms"
      [] key = "progressData" -> "progress"
      [] key = "settings" -> "settings"

(* A pass awaiting its write of `key` sees the entry rewritten under it. *)
MarkOverwritten(ps, key) ==
    {IF p.key = key THEN [p EXCEPT !.overwritten = TRUE] ELSE p : p \in ps}

(* The common shape of the three: `notifies` is TRUE for saveCompleteFormData,
   the only one of them that reports its progress to the listeners. *)
SaveCall(key, payload, notifies) ==
    /\ calls < MaxCalls
    /\ calls' = calls + 1
    /\ recorded' = [recorded EXCEPT ![key] = payload]
    /\ IF userId = NULL /\ storageFull
       THEN \* setItem throws: the exception leaves the call
            /\ last' = Returned(Last("saveOfflineQuota", key, "", payload, NoPass, FALSE, NoNote),
                                Rejected(QuotaExceededError))
            /\ delivered' = <<>>
            /\ UNCHANGED <<syncStatus, saves, nextId, backlogOf, localStorage, passes>>
       ELSE IF userId = NULL
       THEN /\ localStorage' = setItem(localStorage, key, JSONstringify(payload))
            /\ backlogOf' = [backlogOf EXCEPT ![key] = "offline"]
            /\ passes' = MarkOverwritten(passes, key)
            /\ last' = Returned(Last("saveOffline", key, "", payload, NoPass, FALSE, NoNote),
                                Fulfilled(Undefined))
            /\ delivered' = <<>>
            /\ UNCHANGED <<syncStatus, saves, nextId>>
       ELSE IF notifies /\ Throws
       THEN \* the exception leaves the call before its try block
            /\ syncStatus' = _notifySyncListeners("syncing")
            /\ delivered' = Deliveries(syncListeners, "syncing", syncStatus, 0)
            /\ last' = Returned(Last("saveThrown", key, "", payload, NoPass, FALSE, NoNote),
                                Rejected(ListenerError))
            /\ UNCHANGED <<saves, nextId, backlogOf, localStorage, passes>>
       ELSE /\ syncStatus' = IF notifies THEN _notifySyncListeners("syncing") ELSE syncStatus
            /\ delivered' = IF notifies THEN Deliveries(syncListeners, "syncing", syncStatus, 0)
                                         ELSE <<>>
            /\ saves' = saves \cup
                  {[id |-> nextId, key |-> key, payload |-> payload, notifies |-> notifies,
                    path |-> UserPath(userId),
                    data |-> Assign(Field(RemoteField(key), payload), Field("lastUpdated", ISONow))]}
            /\ nextId' = nextId + 1
            /\ backlogOf' = [backlogOf EXCEPT ![key] =
                                IF @ = "failed" /\ JSONparse(getItem(localStorage, key)) # payload
                                THEN "superseded" ELSE @]
            /\ last' = Last("save", key, "", payload, NoPass, FALSE, NoNote)
            /\ UNCHANGED <<localStorage, passes>>
    /\ UNCHANGED <<firebaseCore, authManager, authCalls, trace, uploads, blobs, storageFull, userId, authObserved, unsubscribers, pendingWrites, timers, delayed,
                   inflight, remote, burst, syncListeners>>

saveCompleteFormData(formData) == SaveCall("formData", formData, TRUE)

saveProgressData(progressData) == SaveCall("progressData", progressData, FALSE)

saveSettings(settings) == SaveCall("settings", settings, FALSE)

(* What the three return: from the try block, and from the catch block *)
SaveTryResult == [success |-> TRUE]

SaveCatchResult == [success |-> FALSE, error |-> GatewayError]

(* A variant of the catch block that returns without its fallback write. *)
SaveCatchStorageSkipped(ls, key, payload) == ls

(* The storage the catch block leaves *)
SaveCatchStorage(ls, key, payload) == setItem(ls, key, JSONstringify(payload))

(* The continuation of a save when updateDocument resolved *)
SaveResolved(w) ==
    /\ w \in saves
    /\ saves' = saves \ {w}
    /\ remote' = updateDocument(remote, w.path, w.data)
    /\ IF w.notifies /\ Throws
       THEN \* the exception of the "synced" notice is caught; the "error" notice of
            \* the catch block throws again, before the fallback write
            /\ syncStatus' = _notifySyncListeners("error")
            /\ delivered' = delivered \o Deliveries(syncListeners, "synced", syncStatus, 0)
                                      \o Deliveries(syncListeners, "error", "synced", 0)
            /\ last' = Returned(Last("saveResolvedThrown", w.key, "", w.payload, NoPass, FALSE,
                                     NoNote),
                                Rejected(ListenerError))
       ELSE /\ syncStatus' = IF w.notifies THEN _notifySyncListeners("synced") ELSE syncStatus
            /\ delivered' = IF w.notifies
                             THEN delivered \o Deliveries(syncListeners, "synced", syncStatus, 0)
                             ELSE delivered
            /\ last' = Returned(Last("saveResolved", w.key, "", w.payload, NoPass, FALSE, NoNote),
                                Fulfilled(SaveTryResult))
    /\ UNCHANGED <<firebaseCore, authManager, authCalls, trace, uploads, blobs, storageFull, userId, authObserved, unsubscribers, pendingWrites, timers, delayed,
                   nextId, inflight, passes, localStorage, calls, burst, recorded, backlogOf,
                   syncListeners>>

(* The continuation of a save when updateDocument rejected: the catch block *)
SaveRejected(w) ==
    /\ w \in saves
    /\ saves' = saves \ {w}
    /\ syncStatus' = IF w.notifies THEN _notifySyncListeners("error") ELSE syncStatus
    /\ delivered' = IF w.notifies
                     THEN delivered \o Deliveries(syncListeners, "error", syncStatus, 0)
                     ELSE delivered
    /\ IF w.notifies /\ Throws
       THEN \* the exception leaves the catch block before its fallback write
            /\ last' = Returned(Last("saveRejectedThrown", w.key, "", w.payload, NoPass, FALSE,
                                     NoNote),
                                Rejected(ListenerError))
            /\ UNCHANGED <<localStorage, backlogOf, passes>>
       ELSE IF storageFull
       THEN \* setItem throws inside the catch block: the exception leaves the call
            /\ last' = Returned(Last("saveRejectedQuota", w.key, "", w.payload, NoPass, FALSE,
                                     NoNote),
                                Rejected(QuotaExceededError))
            /\ UNCHANGED <<localStorage, backlogOf, passes>>
       ELSE /\ localStorage' = SaveCatchStorage(localStorage, w.key, w.payload)
            /\ backlogOf' = [backlogOf EXCEPT ![w.key] =
                                IF w.payload = recorded[w.key] THEN "failed" ELSE "stale"]
            /\ passes' = MarkOverwritten(passes, w.key)
            /\ last' = Returned(Last("saveRejected", w.key, "", w.payload, NoPass, FALSE, NoNote),
                                Fulfilled(SaveCatchResult))
    /\ UNCHANGED <<firebaseCore, authManager, authCalls, trace, uploads, blobs, storageFull, userId, authObserved, unsubscribers, pendingWrites, timers, delayed,
                   nextId, inflight, remote, calls, burst, recorded, syncListeners>>

-----------------------------------------------------------------------------
(* DataSync.forceSync *)

(* The filter applied to Object.keys(localStorage) *)
IsLocalKey(k) ==
    \/ StartsWith(k, "forms_") \/ StartsWith(k, "documents_") \/ StartsWith(k, "profile_")
    \/ k = "formData" \/ k = "progressData" \/ k = "settings"

LocalKeys(ls) == {k \in DOMAIN ls : IsLocalKey(k)}

(* The keys for which the loop body calls the gateway *)
HasRemoteWrite(k) == k = "formData" \/ k = "progressData" \/ k = "settings"

RECURSIVE RemoveAll(_, _)
RemoveAll(ls, keys) ==
    IF keys = {} THEN ls
    ELSE LET k == CHOOSE x \in keys : TRUE
         IN  RemoveAll(removeItem(ls, k), keys \ {k})

(* Bookkeeping: the loop body ran for every key of K, calling the gateway for
   those of them that have a remote write. *)
Visit(book, K) ==
    [book EXCEPT
        !.visits = [k \in DOMAIN @ |-> IF k \in K THEN @[k] + 1 ELSE @[k]],
        !.attempts = [k \in DOMAIN @ |-> IF k \in K /\ HasRemoteWrite(k) THEN @[k] + 1 ELSE @[k]],
        !.afterFailure = IF book.rejected # {} THEN @ \cup K ELSE @]

(* A variant of the loop in which a rejected write ends the pass. *)
RemainingAbort(remaining) == {}

(* The keys the loop still has to visit once a write of it was rejected *)
RemainingAfterCatch(remaining) == remaining

(* The for-of loop from the key after the current one, run until its next await
   or its end.  Object.keys gives the keys in an order the storage chooses: the
   keys without a remote write that come before the next awaited key are S.
   p is the pass as the segment found it among the awaiting ones and book its
   bookkeeping so far; ls is the storage and bo the backlog origins the segment
   starts from, st the status it leaves unless the pass ends and dl what the
   listeners were told before it; op, key, data and note describe the segment. *)
Loop(p, remaining, book, ls, bo, st, dl, op, key, data, note) ==
    LET plain == {k \in remaining : ~HasRemoteWrite(k)}
        awaited == {k \in remaining : HasRemoteWrite(k)}
    IN
    \/ \E S \in SUBSET plain, k \in awaited :
          LET ls1 == RemoveAll(ls, S)
              q == [p EXCEPT !.remaining = remaining \ (S \cup {k}),
                             !.key = k,
                             !.data = JSONparse(getItem(ls1, k)),
                             !.path = UserPath(userId),
                             !.superseded = (bo[k] = "superseded"),
                             !.overwritten = FALSE,
                             !.book = Visit(book, S \cup {k})]
          IN  /\ localStorage' = ls1
              /\ passes' = (passes \ {p}) \cup {q}
              /\ syncStatus' = st
              /\ delivered' = dl
              /\ backlogOf' = bo
              /\ last' = Last(op, key, "", data, q.book, FALSE, note)
    \/ /\ awaited = {}
       /\ localStorage' = RemoveAll(ls, plain)
       /\ passes' = passes \ {p}
       /\ syncStatus' = _notifySyncListeners("synced")
       /\ delivered' = dl \o Deliveries(syncListeners, "synced", st, 0)
       /\ backlogOf' = bo
       /\ last' = Returned(Last(op, key, "", data, Visit(book, plain), TRUE, note),
                           IF Throws THEN Rejected(ListenerError) ELSE Fulfilled(JSTrue))

(* A variant of forceSync whose guard comes after the "syncing" notice. *)
ForceSyncGuardStatusNotified(st) == _notifySyncListeners("syncing")

(* The status the guard of forceSync leaves when it returns *)
ForceSyncGuardStatus(st) == st

forceSync ==
    /\ calls < MaxCalls
    /\ calls' = calls + 1
    /\ IF userId = NULL
       THEN /\ last' = Returned(Last("forceSyncNoUser", "", "", JSNull, NoPass, FALSE, NoNote),
                                Fulfilled(JSFalse))
            /\ syncStatus' = ForceSyncGuardStatus(syncStatus)
            /\ delivered' = <<>>
            /\ UNCHANGED <<passes, localStorage, backlogOf, nextId>>
       ELSE IF Throws
       THEN \* the exception of the "syncing" notice leaves the call before the loop
            /\ syncStatus' = _notifySyncListeners("syncing")
            /\ delivered' = Deliveries(syncListeners, "syncing", syncStatus, 0)
            /\ last' = Returned(Last("forceSyncThrown", "", "", JSNull, NoPass, FALSE, NoNote),
                                Rejected(ListenerError))
            /\ UNCHANGED <<passes, localStorage, backlogOf, nextId>>
       ELSE LET keys == LocalKeys(localStorage)
                p == [id |-> nextId, remaining |-> keys, key |-> "", data |-> JSNull,
                      path |-> "", superseded |-> FALSE, overwritten |-> FALSE,
                      book |-> [NoPass EXCEPT !.keys = keys,
                                              !.visits = [k \in keys |-> 0],
                                              !.attempts = [k \in keys |-> 0]]]
            IN  /\ nextId' = nextId + 1
                /\ Loop(p, p.remaining, p.book, localStorage, backlogOf,
                        _notifySyncListeners("syncing"),
                        Deliveries(syncListeners, "syncing", syncStatus, 0),
                        "forceSync", "", JSNull, NoNote)
    /\ UNCHANGED <<firebaseCore, authManager, authCalls, trace, uploads, blobs, storageFull, userId, authObserved, unsubscribers, pendingWrites, timers, delayed,
                   inflight, saves, remote, burst, recorded, syncListeners>>

(* A variant of the loop body that keeps the entry it has written. *)
AfterConfirmedWriteKept(ls, key) == ls

(* The storage after the loop body's removeItem, reached when the write resolved *)
AfterConfirmedWrite(ls, key) == removeItem(ls, key)

(* The pass's continuation when its updateDocument resolved *)
PassResolved(p) ==
    /\ p \in passes
    /\ remote' = updateDocument(remote, p.path, Field(RemoteField(p.key), p.data))
    /\ Loop(p, p.remaining, [p.book EXCEPT !.accepted = @ \cup {p.key}],
            AfterConfirmedWrite(localStorage, p.key),
            [backlogOf EXCEPT ![p.key] = "none"],
            syncStatus, delivered, "passResolved", p.key, p.data,
            Note(p.superseded, p.overwritten, JSONparse(getItem(localStorage, p.key))))
    /\ UNCHANGED <<firebaseCore, authManager, authCalls, trace, uploads, blobs, storageFull, userId, authObserved, unsubscribers, pendingWrites, timers, delayed,
                   nextId, inflight, saves, calls, burst, recorded, syncListeners>>

(* The pass's continuation when its updateDocument rejected: the catch block *)
PassRejected(p) ==
    /\ p \in passes
    /\ Loop(p, RemainingAfterCatch(p.remaining), [p.book EXCEPT !.rejected = @ \cup {p.key}],
            localStorage, backlogOf, syncStatus, delivered, "passRejected", p.key, p.data,
            Note(p.superseded, p.overwritten, JSONparse(getItem(localStorage, p.key))))
    /\ UNCHANGED <<firebaseCore, authManager, authCalls, trace, uploads, blobs, storageFull, userId, authObserved, unsubscribers, pendingWrites, timers, delayed,
                   nextId, inflight, saves, remote, calls, burst, recorded, syncListeners>>

-----------------------------------------------------------------------------
(* DataSync.addSyncListener, DataSync.removeSyncListener *)

addSyncListener(callback) ==
    /\ calls < MaxCalls
    /\ calls' = calls + 1
    /\ syncListeners' = Append(syncListeners, callback)
    /\ delivered' = <<>>
    /\ last' = Last("addSyncListener", callback, "", JSNull, NoPass, FALSE, NoNote)
    /\ UNCHANGED <<firebaseCore, authManager, authCalls, trace, uploads, blobs, storageFull, userId, authObserved, syncStatus, unsubscribers, pendingWrites, timers,
                   delayed, nextId, inflight, saves, passes, localStorage, remote, burst,
                   recorded, backlogOf>>

(* Array.prototype.filter(l => l !== callback) *)
Without(ls, callback) == SelectSeq(ls, LAMBDA l : l # callback)

removeSyncListener(callback) ==
    /\ calls < MaxCalls
    /\ calls' = calls + 1
    /\ syncListeners' = Without(syncListeners, callback)
    /\ delivered' = <<>>
    /\ last' = Last("removeSyncListener", callback, "", JSNull, NoPass, FALSE, NoNote)
    /\ UNCHANGED <<firebaseCore, authManager, authCalls, trace, uploads, blobs, storageFull, userId, authObserved, syncStatus, unsubscribers, pendingWrites, timers,
                   delayed, nextId, inflight, saves, passes, localStorage, remote, burst,
                   recorded, backlogOf>>

-----------------------------------------------------------------------------
(* The window's online and offline events (DataSync._init) *)

OnlineEvent ==
    /\ calls < MaxCalls
    /\ calls' = calls + 1
    /\ syncStatus' = _notifySyncListeners("syncing")
    /\ delivered' = Deliveries(syncListeners, "syncing", syncStatus, 0)
    /\ IF Throws
       THEN \* the exception leaves the handler before setTimeout
            UNCHANGED <<delayed, nextId>>
       ELSE /\ delayed' = delayed \cup
                    {[id |-> nextId, kind |-> "reconnect", left |-> reconnectDelayMs]}
            /\ nextId' = nextId + 1
    /\ last' = Last("online", "", "", JSNull, NoPass, FALSE, NoNote)
    /\ UNCHANGED <<firebaseCore, authManager, authCalls, trace, uploads, blobs, storageFull, userId, authObserved, unsubscribers, pendingWrites, timers, inflight,
                   saves, passes, localStorage, remote, burst, recorded, backlogOf,
                   syncListeners>>

(* The timeout callback scheduled by the online handler: _startSync when an
   identity is present *)
ReconnectTimeout(t) ==
    /\ t \in delayed
    /\ t.kind = "reconnect"
    /\ t.left = 0
    /\ IF userId # NULL
       THEN /\ unsubscribers' = unsubscribers + SubscriptionsPerStart
            /\ delayed' = (delayed \ {t}) \cup
                    {[id |-> nextId, kind |-> "initialSync", left |-> initialSyncDelayMs]}
            /\ nextId' = nextId + 1
       ELSE /\ delayed' = delayed \ {t}
            /\ UNCHANGED <<unsubscribers, nextId>>
    /\ last' = Last("reconnectTimeout", "", "", JSNull, NoPass, FALSE, NoNote)
    /\ UNCHANGED <<firebaseCore, authManager, authCalls, trace, uploads, blobs, storageFull, userId, authObserved, syncStatus, pendingWrites, timers, inflight, saves,
                   passes, localStorage, remote, calls, burst, recorded, backlogOf,
                   syncListeners, delivered>>

OfflineEvent ==
    /\ calls < MaxCalls
    /\ calls' = calls + 1
    /\ syncStatus' = _notifySyncListeners("offline")
    /\ delivered' = Deliveries(syncListeners, "offline", syncStatus, 0)
    /\ last' = Last("offline", "", "", JSNull, NoPass, FALSE, NoNote)
    /\ UNCHANGED <<firebaseCore, authManager, authCalls, trace, uploads, blobs, storageFull, userId, authObserved, unsubscribers, pendingWrites, timers, delayed,
                   nextId, inflight, saves, passes, localStorage, remote, burst, recorded,
                   backlogOf, syncListeners>>

-----------------------------------------------------------------------------
(* DocumentManager (src/unnamed/part_000): validateFile and uploadDocument.
   The progress callback of the upload task only reports to its caller and is
   not modelled. *)

MAX_FILE_SIZE == 5 * 1024 * 1024

ALLOWED_TYPES == {"application/pdf", "image/jpeg", "image/png", "image/jpg"}

(* No file was selected: the argument is null or undefined. *)
NoFile == JSNull

(* The files and document types handed to uploadDocument *)
Files ==
    {NoFile} \cup [name : {"scan.pdf"}, size : {MAX_FILE_SIZE, MAX_FILE_SIZE + 1},
                   type : {"application/pdf", "text/plain"}]

DocTypes == {"passport"}

(* A variant of validateFile without the size check. *)
validateFileAnySize(file) ==
    IF file = NoFile THEN [valid |-> FALSE, error |-> "No file selected"]
    ELSE IF file.type \notin ALLOWED_TYPES THEN [valid |-> FALSE, error |-> "Invalid file type"]
    ELSE [valid |-> TRUE]

validateFile(file) ==
    IF file = NoFile THEN [valid |-> FALSE, error |-> "No file selected"]
    ELSE IF file.size > MAX_FILE_SIZE THEN [valid |-> FALSE, error |-> "File too large"]
    ELSE IF file.type \notin ALLOWED_TYPES THEN [valid |-> FALSE, error |-> "Invalid file type"]
    ELSE [valid |-> TRUE]

(* Date.now(): the clock's value is not modelled. *)
DateNow == "<now>"

DownloadUrl == "<downloadUrl>"

(* auth.currentUser: the identity the observer of DataSync was last told *)
currentUser == userId

(* The document of the user's documents subcollection *)
DocumentPath(uid, docType) == "users/" \o uid \o "/documents/" \o docType

(* docRef.set(data, {merge: true}) *)
setMerge(rem, path, data) ==
    LET doc == IF path \in DOMAIN rem THEN rem[path] ELSE EmptyObject
    IN  [p \in DOMAIN rem \cup {path} |-> IF p = path THEN Assign(doc, data) ELSE rem[p]]

(* uploadDocument up to the promise it returns: the validation, the identity
   check and storageRef.put(file) *)
uploadDocument(file, docType) ==
    LET validation == validateFile(file)
        user == currentUser
    IN
    /\ calls < MaxCalls
    /\ calls' = calls + 1
    /\ delivered' = <<>>
    /\ IF ~validation.valid
       THEN /\ last' = Returned(Last("uploadInvalid", docType, "", file, NoPass, FALSE, NoNote),
                                Rejected(validation.error))
            /\ UNCHANGED <<uploads, nextId>>
       ELSE IF user = NULL
       THEN /\ last' = Returned(Last("uploadNoUser", docType, "", file, NoPass, FALSE, NoNote),
                                Rejected("You must be logged in to upload documents"))
            /\ UNCHANGED <<uploads, nextId>>
       ELSE /\ uploads' = uploads \cup
                  {[id |-> nextId, file |-> file, docType |-> docType, uid |-> user,
                    storagePath |-> "users/" \o user \o "/documents/" \o docType \o "/"
                                        \o DateNow \o "_" \o file.name,
                    stage |-> "put", docData |-> EmptyObject]}
            /\ nextId' = nextId + 1
            /\ last' = Last("uploadDocument", docType, "", file, NoPass, FALSE, NoNote)
    /\ UNCHANGED <<firebaseCore, authManager, authCalls, trace,
                   blobs, remote, userId, authObserved, syncStatus, unsubscribers,
                   pendingWrites, timers, delayed, inflight, saves, passes, localStorage,
                   burst, recorded, backlogOf, syncListeners, storageFull>>

(* What every continuation of an upload leaves alone *)
UploadFrame ==
    UNCHANGED <<firebaseCore, authManager, authCalls, trace,
                userId, authObserved, syncStatus, unsubscribers, pendingWrites, timers,
                delayed, nextId, inflight, saves, passes, localStorage, calls, burst,
                recorded, backlogOf, syncListeners, delivered, storageFull>>

(* A variant of the error observer that records the failed upload in the
   user's documents. *)
ErrorObserverRemoteRecorded(rem, u) ==
    setMerge(rem, DocumentPath(u.uid, u.docType),
             [docType |-> u.docType, storagePath |-> u.storagePath, status |-> "failed"])

(* The database after the error observer, which only rejects *)
ErrorObserverRemote(rem, u) == rem

(* The error observer of the upload task *)
UploadError(u) ==
    /\ u \in uploads
    /\ u.stage = "put"
    /\ uploads' = uploads \ {u}
    /\ remote' = ErrorObserverRemote(remote, u)
    /\ last' = Returned(Last("uploadError", u.docType, "", u.file, NoPass, FALSE, NoNote),
                        Rejected("Upload failed"))
    /\ UNCHANGED blobs
    /\ UploadFrame

(* The completion observer of the upload task, up to its await of
   getDownloadURL: the file is stored. *)
UploadComplete(u) ==
    /\ u \in uploads
    /\ u.stage = "put"
    /\ blobs' = blobs \cup {u.storagePath}
    /\ uploads' = (uploads \ {u}) \cup {[u EXCEPT !.stage = "url"]}
    /\ last' = Last("uploadComplete", u.docType, "", u.file, NoPass, FALSE, NoNote)
    /\ UNCHANGED remote
    /\ UploadFrame

(* getDownloadURL resolved: the metadata is assembled and its set() awaited *)
DownloadUrlResolved(u) ==
    /\ u \in uploads
    /\ u.stage = "url"
    /\ uploads' = (uploads \ {u}) \cup
          {[u EXCEPT !.stage = "set",
                     !.docData = [docType |-> u.docType, fileName |-> u.file.name,
                                  fileUrl |-> DownloadUrl, storagePath |-> u.storagePath,
                                  mimeType |-> u.file.type, fileSize |-> u.file.size,
                                  status |-> "uploaded", uploadedAt |-> ServerTimestamp,
                                  updatedAt |-> ServerTimestamp]]}
    /\ last' = Last("downloadUrlResolved", u.docType, "", u.file, NoPass, FALSE, NoNote)
    /\ UNCHANGED <<blobs, remote>>
    /\ UploadFrame

(* getDownloadURL rejected: the catch block of the completion observer *)
DownloadUrlRejected(u) ==
    /\ u \in uploads
    /\ u.stage = "url"
    /\ uploads' = uploads \ {u}
    /\ last' = Returned(Last("downloadUrlRejected", u.docType, "", u.file, NoPass, FALSE, NoNote),
                        Rejected("Failed to save document information"))
    /\ UNCHANGED <<blobs, remote>>
    /\ UploadFrame

(* set() resolved: the promise of uploadDocument is resolved *)
SetResolved(u) ==
    /\ u \in uploads
    /\ u.stage = "set"
    /\ uploads' = uploads \ {u}
    /\ remote' = setMerge(remote, DocumentPath(u.uid, u.docType), u.docData)
    /\ last' = Returned(Last("setResolved", u.docType, "", u.file, NoPass, FALSE, NoNote),
                        Fulfilled([success |-> TRUE, data |-> u.docData,
                                   message |-> "Document uploaded successfully!"]))
    /\ UNCHANGED blobs
    /\ UploadFrame

(* set() rejected: the catch block of the completion observer *)
SetRejected(u) ==
    /\ u \in uploads
    /\ u.stage = "set"
    /\ uploads' = uploads \ {u}
    /\ last' = Returned(Last("setRejected", u.docType, "", u.file, NoPass, FALSE, NoNote),
                        Rejected("Failed to save document information"))
    /\ UNCHANGED <<blobs, remote>>
    /\ UploadFrame

-----------------------------------------------------------------------------
(* The browser's storage quota: once it is reached, localStorage.setItem
   throws QuotaExceededError for every write. *)

QuotaExceeded ==
    /\ ~storageFull
    /\ storageFull' = TRUE
    /\ last' = Last("quotaExceeded", "", "", JSNull, NoPass, FALSE, NoNote)
    /\ UNCHANGED <<firebaseCore, authManager, authCalls, trace,
                   uploads, blobs, userId, authObserved, syncStatus, unsubscribers,
                   pendingWrites, timers, delayed, nextId, inflight, saves, passes,
                   localStorage, remote, calls, burst, recorded, backlogOf, syncListeners,
                   delivered>>

-----------------------------------------------------------------------------
(* The Firebase core (src/data-sync.js, lines 643-730): initializeFirebase and
   the getters of the instances.  The functions are synchronous, so each call
   is one step. *)

(* How a synchronous call ended: `return value`, or an exception *)
ReturnedValue(value) == [state |-> "returned", value |-> value]

Thrown(error) == [state |-> "thrown", value |-> [error |-> error]]

NotInitializedError == "Firebase not initialized. Call initializeFirebase() first."

(* The configurations handed to initializeFirebase: the one of line 643 and
   another one *)
firebaseConfig == "visa-guide-ai"

Configs == {firebaseConfig, "other-project"}

(* The call of the SDK that throws during an attempt, if any: the SDK's script
   or one of its service scripts may be missing, and initializeApp refuses a
   second default app or returns the first one. *)
SdkFailures == {"none", "initializeApp", "auth", "firestore", "storage"}

(* A service instance of the SDK's default app *)
Instance(service, config) == [service |-> service, config |-> config]

(* The object initializeFirebase returns *)
Instances(fc) == [app |-> fc.app, auth |-> fc.auth, db |-> fc.db, storage |-> fc.storage]

(* The try block of initializeFirebase: the assignments made until the SDK
   call named by `failure` throws.  firebase.initializeApp creates the default
   app unless the SDK holds one already; the services are those of that app. *)
InitializeTry(fc, config, failure) ==
    LET theApp == IF fc.app # JSNull THEN fc.app ELSE Instance("app", config)
        a == IF failure = "initializeApp" THEN fc ELSE [fc EXCEPT !.app = theApp]
        b == IF failure \in {"initializeApp", "auth"} THEN a
             ELSE [a EXCEPT !.auth = Instance("auth", theApp.config)]
        c == IF failure \in {"initializeApp", "auth", "firestore"} THEN b
             ELSE [b EXCEPT !.db = Instance("firestore", theApp.config)]
        d == IF failure # "none" THEN c
             ELSE [c EXCEPT !.storage = Instance("storage", theApp.config),
                            !.isFirebaseInitialized = TRUE]
    IN  d

(* A variant of the guard of initializeFirebase that never finds the SDK
   initialized. *)
AlreadyInitializedIgnored(fc) == FALSE

(* The guard of initializeFirebase *)
AlreadyInitialized(fc) == fc.isFirebaseInitialized

(* The script of the Firebase core has run: window.FirebaseCore is assigned *)
FirebaseCoreLoaded ==
    /\ ~firebaseCore.defined
    /\ firebaseCore' = [firebaseCore EXCEPT !.defined = TRUE]
    /\ last' = Last("firebaseCoreLoaded", "", "", JSNull, NoPass, FALSE, NoNote)
    /\ UNCHANGED <<authManager, authCalls, trace, uploads, blobs, storageFull, userId,
                   authObserved, syncStatus, unsubscribers, pendingWrites, timers, delayed,
                   nextId, inflight, saves, passes, localStorage, remote, calls, burst,
                   recorded, backlogOf, syncListeners, delivered>>

(* What a call of the Firebase core leaves alone *)
CoreFrame ==
    UNCHANGED <<authManager, authCalls, uploads, blobs, storageFull, userId, authObserved,
                syncStatus, unsubscribers, pendingWrites, timers, delayed, nextId, inflight,
                saves, passes, localStorage, remote, burst, recorded, backlogOf,
                syncListeners, delivered>>

initializeFirebase(config) ==
    /\ firebaseCore.defined
    /\ calls < MaxCalls
    /\ calls' = calls + 1
    /\ IF AlreadyInitialized(firebaseCore)
       THEN /\ last' = Returned(Last("initializeFirebaseAgain", config, "", JSNull, NoPass,
                                     FALSE, NoNote),
                                ReturnedValue(Instances(firebaseCore)))
            /\ UNCHANGED <<firebaseCore, trace>>
       ELSE \E failure \in SdkFailures :
              /\ firebaseCore' = InitializeTry(firebaseCore, config, failure)
              /\ trace' = [trace EXCEPT !.initializeAppCalls = @ + 1]
              /\ last' = Returned(Last("initializeFirebase", config, "", JSNull, NoPass,
                                       FALSE, NoNote),
                                  IF failure = "none"
                                  THEN ReturnedValue(Instances(firebaseCore'))
                                  ELSE Thrown(failure))
    /\ CoreFrame

getFirebaseAuth(fc) ==
    IF ~fc.isFirebaseInitialized \/ fc.auth = JSNull
    THEN Thrown(NotInitializedError) ELSE ReturnedValue(fc.auth)

getFirebaseDb(fc) ==
    IF ~fc.isFirebaseInitialized \/ fc.db = JSNull
    THEN Thrown(NotInitializedError) ELSE ReturnedValue(fc.db)

getFirebaseStorage(fc) ==
    IF ~fc.isFirebaseInitialized \/ fc.storage = JSNull
    THEN Thrown(NotInitializedError) ELSE ReturnedValue(fc.storage)

isFirebaseReady(fc) == fc.isFirebaseInitialized

(* A call of one of the getters by the application *)
GetterCall(op, result) ==
    /\ firebaseCore.defined
    /\ calls < MaxCalls
    /\ calls' = calls + 1
    /\ last' = Returned(Last(op, "", "", JSNull, NoPass, FALSE, NoNote), result)
    /\ UNCHANGED <<firebaseCore, trace>>
    /\ CoreFrame

GetAuth == GetterCall("getFirebaseAuth", getFirebaseAuth(firebaseCore))

GetDb == GetterCall("getFirebaseDb", getFirebaseDb(firebaseCore))

GetStorage == GetterCall("getFirebaseStorage", getFirebaseStorage(firebaseCore))

-----------------------------------------------------------------------------
(* AuthManager (src/unnamed/part_000, lines 393-448): ensureInitialized and
   _doInitialize.  What signIn, signUp, signOut and resetPassword do after
   their `await this.ensureInitialized()` is not modelled. *)

(* The methods that begin with `await this.ensureInitialized()` *)
AuthOps == {"signIn", "signUp", "signOut", "resetPassword"}

(* The polls _doInitialize makes for FirebaseCore before it gives up *)
MaxAttempts == 50

InitializationError == "InitializationError"

(* _doInitialize after its wait (lines 436-447, no await): the Firebase core
   it leaves, and whether it reached its end; `failure` names the SDK call that
   throws should FirebaseCore.initialize be called. *)
DoInitializeCore(fc, failure) ==
    IF isFirebaseReady(fc) THEN fc ELSE InitializeTry(fc, firebaseConfig, failure)

DoInitializeAuth(fc, failure) == getFirebaseAuth(DoInitializeCore(fc, failure))

(* The AuthManager and the history when _doInitialize ends, normally (with
   this.auth and this.initialized set and the auth-state observer registered by
   _initAuthListener) or with an exception *)
DoInitializeEnd(am, fc, failure) ==
    LET got == DoInitializeAuth(fc, failure)
    IN  IF got.state = "returned"
        THEN [am EXCEPT !.auth = got.value, !.initialized = TRUE, !.initPromise = "fulfilled"]
        ELSE [am EXCEPT !.initPromise = "rejected"]

DoInitializeTrace(tr, fc, failure) ==
    [tr EXCEPT !.initializeAppCalls = IF isFirebaseReady(fc) THEN @ ELSE @ + 1,
               !.observers = IF DoInitializeAuth(fc, failure).state = "returned"
                             THEN @ + 1 ELSE @]

(* A variant of ensureInitialized without the test of this.initPromise. *)
InitInProgressIgnored(am) == FALSE

(* The second test of ensureInitialized: an initialization has been started *)
InitInProgress(am) == am.initPromise # "null"

(* What a step of the AuthManager leaves alone *)
AuthFrame ==
    UNCHANGED <<uploads, blobs, storageFull, userId, authObserved, syncStatus,
                unsubscribers, pendingWrites, timers, delayed, inflight, saves, passes,
                localStorage, remote, burst, recorded, backlogOf, syncListeners, delivered>>

(* signIn, signUp, signOut or resetPassword up to the await of
   ensureInitialized, which itself runs up to its await; when it starts
   _doInitialize, that runs up to its first await or, if FirebaseCore is
   defined, to its end. *)
ensureInitialized(op) ==
    /\ calls < MaxCalls
    /\ calls' = calls + 1
    /\ IF authManager.initialized /\ authManager.auth # JSNull
       THEN /\ last' = Returned(Last("ensureInitializedReady", op, "", JSNull, NoPass,
                                     FALSE, NoNote),
                                Fulfilled(Undefined))
            /\ UNCHANGED <<authManager, authCalls, firebaseCore, trace, nextId>>
       ELSE /\ authCalls' = authCalls \cup {[id |-> nextId, op |-> op]}
            /\ nextId' = nextId + 1
            /\ IF InitInProgress(authManager)
               THEN /\ last' = Last("ensureInitializedAwait", op, "", JSNull, NoPass,
                                    FALSE, NoNote)
                    /\ UNCHANGED <<authManager, firebaseCore, trace>>
               ELSE /\ last' = Last("ensureInitializedStart", op, "", JSNull, NoPass,
                                    FALSE, NoNote)
                    /\ IF ~firebaseCore.defined
                       THEN /\ authManager' = [authManager EXCEPT !.initPromise = "pending",
                                                                  !.attempts = 0]
                            /\ trace' = [trace EXCEPT !.doInitializeRuns = @ + 1]
                            /\ UNCHANGED firebaseCore
                       ELSE \E failure \in SdkFailures :
                              /\ firebaseCore' = DoInitializeCore(firebaseCore, failure)
                              /\ authManager' = DoInitializeEnd(authManager, firebaseCore, failure)
                              /\ trace' = [DoInitializeTrace(trace, firebaseCore, failure)
                                              EXCEPT !.doInitializeRuns = @ + 1]
    /\ AuthFrame

(* A timeout of the wait loop of _doInitialize fires: it counts the attempt and
   tests the loop's condition again *)
PollTimeout ==
    /\ authManager.initPromise = "pending"
    /\ IF ~firebaseCore.defined
       THEN /\ authManager' =
                  [authManager EXCEPT !.attempts = @ + 1,
                                      !.initPromise = IF authManager.attempts + 1 < MaxAttempts
                                                      THEN "pending" ELSE "rejected"]
            /\ UNCHANGED <<firebaseCore, trace>>
       ELSE \E failure \in SdkFailures :
              /\ firebaseCore' = DoInitializeCore(firebaseCore, failure)
              /\ authManager' = [DoInitializeEnd(authManager, firebaseCore, failure)
                                    EXCEPT !.attempts = @ + 1]
              /\ trace' = DoInitializeTrace(trace, firebaseCore, failure)
    /\ last' = Last("pollTimeout", "", "", JSNull, NoPass, FALSE, NoNote)
    /\ UNCHANGED <<authCalls, nextId, calls>>
    /\ AuthFrame

(* The await of ensureInitialized ends because initPromise is fulfilled: the
   caller goes on *)
EnsureResolved(c) ==
    /\ c \in authCalls
    /\ authManager.initPromise = "fulfilled"
    /\ authCalls' = authCalls \ {c}
    /\ last' = Returned(Last("ensureInitializedResolved", c.op, "", JSNull, NoPass, FALSE,
                             NoNote),
                        Fulfilled(Undefined))
    /\ UNCHANGED <<authManager, firebaseCore, trace, nextId, calls>>
    /\ AuthFrame

(* The await of ensureInitialized throws because initPromise is rejected: the
   exception leaves ensureInitialized and its caller *)
EnsureRejected(c) ==
    /\ c \in authCalls
    /\ authManager.initPromise = "rejected"
    /\ authCalls' = authCalls \ {c}
    /\ last' = Returned(Last("ensureInitializedRejected", c.op, "", JSNull, NoPass, FALSE,
                             NoNote),
                        Rejected(InitializationError))
    /\ UNCHANGED <<authManager, firebaseCore, trace, nextId, calls>>
    /\ AuthFrame

-----------------------------------------------------------------------------
Next ==
    \/ \E user \in Users \cup {NULL} : onAuthStateChanged(user)
    \/ \E t \in delayed : InitialSyncTimeout(t)
    \/ Tick
    \/ \E c \in Collections, d \in DocIds, f \in FieldNames, v \in Values : saveFormData(c, d, f, v)
    \/ \E t \in timers : FlushStart(t)
    \/ \E w \in inflight : FlushResolved(w)
    \/ \E w \in inflight : FlushRejected(w)
    \/ \E payload \in Payloads : saveCompleteFormData(payload)
    \/ \E payload \in Payloads : saveProgressData(payload)
    \/ \E payload \in Payloads : saveSettings(payload)
    \/ \E w \in saves : SaveResolved(w)
    \/ \E w \in saves : SaveRejected(w)
    \/ forceSync
    \/ \E p \in passes : PassResolved(p)
    \/ \E p \in passes : PassRejected(p)
    \/ \E callback \in Callbacks : addSyncListener(callback)
    \/ \E callback \in Callbacks : removeSyncListener(callback)
    \/ OnlineEvent
    \/ \E t \in delayed : ReconnectTimeout(t)
    \/ OfflineEvent
    \/ QuotaExceeded
    \/ \E file \in Files, docType \in DocTypes : uploadDocument(file, docType)
    \/ \E u \in uploads : UploadError(u)
    \/ \E u \in uploads : UploadComplete(u)
    \/ \E u \in uploads : DownloadUrlResolved(u)
    \/ \E u \in uploads : DownloadUrlRejected(u)
    \/ \E u \in uploads : SetResolved(u)
    \/ \E u \in uploads : SetRejected(u)
    \/ FirebaseCoreLoaded
    \/ \E config \in Configs : initializeFirebase(config)
    \/ GetAuth
    \/ GetDb
    \/ GetStorage
    \/ \E op \in AuthOps : ensureInitialized(op)
    \/ PollTimeout
    \/ \E c \in authCalls : EnsureResolved(c)
    \/ \E c \in authCalls : EnsureRejected(c)

Spec == Init /\ [][Next]_vars

(* The debounce path alone: the application only records field changes. *)
NextDebounce ==
    \/ \E user \in Users \cup {NULL} : onAuthStateChanged(user)
    \/ \E t \in delayed : InitialSyncTimeout(t)
    \/ Tick
    \/ \E c \in Collections, d \in DocIds, f \in FieldNames, v \in Values : saveFormData(c, d, f, v)
    \/ \E t \in timers : FlushStart(t)
    \/ \E w \in inflight : FlushResolved(w)
    \/ \E w \in inflight : FlushRejected(w)

SpecDebounce == Init /\ [][NextDebounce]_vars

(* The reconciliation path: whole-payload saves, field changes recorded while
   signed out (they fill the forms_ namespace) and forceSync, all of it before
   the delayed notice of _startSync is due. *)
NextReconcile ==
    \/ \E user \in Users \cup {NULL} : onAuthStateChanged(user)
    \/ \E d \in DocIds, f \in FieldNames, v \in Values :
          userId = NULL /\ saveFormData("forms", d, f, v)
    \/ \E payload \in Payloads : saveCompleteFormData(payload)
    \/ \E payload \in Payloads : saveProgressData(payload)
    \/ \E payload \in Payloads : saveSettings(payload)
    \/ \E w \in saves : SaveResolved(w)
    \/ \E w \in saves : SaveRejected(w)
    \/ forceSync
    \/ \E p \in passes : PassResolved(p)
    \/ \E p \in passes : PassRejected(p)

SpecReconcile == Init /\ [][NextReconcile]_vars

(* Status notification: listeners that return normally are registered and
   removed while the identity, the connectivity and the field changes of one
   document drive the status. *)
NextNotify ==
    \/ \E user \in Users \cup {NULL} : onAuthStateChanged(user)
    \/ \E callback \in Callbacks \ Throwers : addSyncListener(callback)
    \/ \E callback \in Callbacks \ Throwers : removeSyncListener(callback)
    \/ OnlineEvent
    \/ \E t \in delayed : ReconnectTimeout(t)
    \/ OfflineEvent
    \/ \E t \in delayed : InitialSyncTimeout(t)
    \/ Tick
    \/ \E d \in DocIds, f \in FieldNames, v \in Values : saveFormData("forms", d, f, v)
    \/ \E t \in timers : FlushStart(t)
    \/ \E w \in inflight : FlushResolved(w)
    \/ \E w \in inflight : FlushRejected(w)

SpecNotify == Init /\ [][NextNotify]_vars

(* Status notification with listeners that may throw. *)
NextThrow ==
    \/ \E user \in Users \cup {NULL} : onAuthStateChanged(user)
    \/ \E callback \in Callbacks : addSyncListener(callback)
    \/ \E t \in delayed : InitialSyncTimeout(t)
    \/ Tick
    \/ \E d \in DocIds, f \in FieldNames, v \in Values : saveFormData("forms", d, f, v)
    \/ \E t \in timers : FlushStart(t)
    \/ \E w \in inflight : FlushResolved(w)
    \/ \E w \in inflight : FlushRejected(w)

SpecThrow == Init /\ [][NextThrow]_vars

(* Identity and connectivity: changes are recorded while signed out, then the
   identity arrives or the connection returns; the application never calls
   forceSync itself.  Every scheduled timeout eventually fires. *)
NextConnect ==
    \/ \E user \in Users \cup {NULL} : onAuthStateChanged(user)
    \/ \E d \in DocIds, f \in FieldNames, v \in Values :
          userId = NULL /\ saveFormData("forms", d, f, v)
    \/ \E payload \in Payloads : userId = NULL /\ saveSettings(payload)
    \/ OnlineEvent
    \/ OfflineEvent
    \/ \E t \in delayed : ReconnectTimeout(t)
    \/ \E t \in delayed : InitialSyncTimeout(t)
    \/ Tick

SpecConnect ==
    /\ Init
    /\ [][NextConnect]_vars
    /\ WF_vars(Tick)
    /\ WF_vars(\E t \in delayed : ReconnectTimeout(t))
    /\ WF_vars(\E t \in delayed : InitialSyncTimeout(t))

(* The debounce path of one document while the storage quota may be reached. *)
NextQuota ==
    \/ \E user \in Users \cup {NULL} : onAuthStateChanged(user)
    \/ \E t \in delayed : InitialSyncTimeout(t)
    \/ Tick
    \/ \E d \in DocIds, f \in FieldNames, v \in Values : saveFormData("forms", d, f, v)
    \/ \E t \in timers : FlushStart(t)
    \/ \E w \in inflight : FlushResolved(w)
    \/ \E w \in inflight : FlushRejected(w)
    \/ QuotaExceeded

SpecQuota == Init /\ [][NextQuota]_vars

(* The backlog of field changes: two fields of every document are edited while
   signed out, and one of them also while signed in, where its flush may fail. *)
NextBacklog ==
    \/ \E user \in Users \cup {NULL} : onAuthStateChanged(user)
    \/ \E t \in delayed : InitialSyncTimeout(t)
    \/ Tick
    \/ \E c \in Collections, d \in DocIds, f \in BacklogFields, v \in Values :
          userId = NULL /\ saveFormData(c, d, f, v)
    \/ \E d \in DocIds, f \in FieldNames, v \in Values :
          userId # NULL /\ saveFormData("forms", d, f, v)
    \/ \E t \in timers : FlushStart(t)
    \/ \E w \in inflight : FlushResolved(w)
    \/ \E w \in inflight : FlushRejected(w)

SpecBacklog == Init /\ [][NextBacklog]_vars

(* Document uploads: the user signs in and out, status listeners that return
   normally are registered, and documents are uploaded. *)
NextUpload ==
    \/ \E user \in Users \cup {NULL} : onAuthStateChanged(user)
    \/ \E callback \in Callbacks \ Throwers : addSyncListener(callback)
    \/ \E file \in Files, docType \in DocTypes : uploadDocument(file, docType)
    \/ \E u \in uploads : UploadError(u)
    \/ \E u \in uploads : UploadComplete(u)
    \/ \E u \in uploads : DownloadUrlResolved(u)
    \/ \E u \in uploads : DownloadUrlRejected(u)
    \/ \E u \in uploads : SetResolved(u)
    \/ \E u \in uploads : SetRejected(u)

SpecUpload == Init /\ [][NextUpload]_vars

(* Reconciliation run on its own: the backlog is filled while signed out, and
   while a pass is under way the application neither records anything nor
   changes the identity nor starts another pass. *)
NextReplay ==
    \/ \E user \in Users \cup {NULL} : passes = {} /\ onAuthStateChanged(user)
    \/ \E d \in DocIds, f \in FieldNames, v \in Values :
          userId = NULL /\ saveFormData("forms", d, f, v)
    \/ \E payload \in Payloads : userId = NULL /\ saveCompleteFormData(payload)
    \/ \E payload \in Payloads : userId = NULL /\ saveProgressData(payload)
    \/ \E payload \in Payloads : userId = NULL /\ saveSettings(payload)
    \/ passes = {} /\ forceSync
    \/ \E p \in passes : PassResolved(p)
    \/ \E p \in passes : PassRejected(p)

SpecReplay == Init /\ [][NextReplay]_vars

(* The field changes of one document under sign-in and sign-out, where every
   scheduled timeout eventually fires and every gateway call eventually
   settles, one way or the other. *)
NextFlush ==
    \/ \E user \in Users \cup {NULL} : onAuthStateChanged(user)
    \/ \E t \in delayed : InitialSyncTimeout(t)
    \/ Tick
    \/ \E d \in DocIds, f \in FieldNames, v \in Values : saveFormData("forms", d, f, v)
    \/ \E t \in timers : FlushStart(t)
    \/ \E w \in inflight : FlushResolved(w)
    \/ \E w \in inflight : FlushRejected(w)

SpecFlush ==
    /\ Init
    /\ [][NextFlush]_vars
    /\ WF_vars(Tick)
    /\ WF_vars(\E t \in delayed : InitialSyncTimeout(t))
    /\ WF_vars(\E t \in timers : FlushStart(t))
    /\ WF_vars(\E w \in inflight : FlushResolved(w) \/ FlushRejected(w))

(* Reconciliation asked for at any time: listeners that return normally are
   registered, the backlog is filled while signed out, whole payloads are saved
   while signed in, and forceSync is called with and without an identity. *)
NextForce ==
    \/ \E user \in Users \cup {NULL} : onAuthStateChanged(user)
    \/ \E callback \in Callbacks \ Throwers : addSyncListener(callback)
    \/ \E d \in DocIds, f \in FieldNames, v \in Values :
          userId = NULL /\ saveFormData("forms", d, f, v)
    \/ \E payload \in Payloads : saveSettings(payload)
    \/ \E w \in saves : SaveResolved(w)
    \/ \E w \in saves : SaveRejected(w)
    \/ forceSync
    \/ \E p \in passes : PassResolved(p)
    \/ \E p \in passes : PassRejected(p)

SpecForce == Init /\ [][NextForce]_vars

(* The Firebase core on its own: its script loads, the application initializes
   it, perhaps more than once and perhaps in vain, and asks for the instances. *)
NextFirebase ==
    \/ FirebaseCoreLoaded
    \/ \E config \in Configs : initializeFirebase(config)
    \/ GetAuth
    \/ GetDb
    \/ GetStorage

SpecFirebase == Init /\ [][NextFirebase]_vars

(* The start of the AuthManager: its methods are called in any number and
   order while the script of the Firebase core may not have run yet, and the
   core may have been initialized by another component. *)
NextAuthInit ==
    \/ FirebaseCoreLoaded
    \/ initializeFirebase(firebaseConfig)
    \/ \E op \in AuthOps : ensureInitialized(op)
    \/ PollTimeout
    \/ \E c \in authCalls : EnsureResolved(c)
    \/ \E c \in authCalls : EnsureRejected(c)

SpecAuthInit == Init /\ [][NextAuthInit]_vars

-----------------------------------------------------------------------------
(* Properties of the debounce path, checked under SpecDebounce *)

(* The backlog entry `key` holds every member of the object `data`. *)
BacklogHolds(ls, key, data) ==
    /\ key \in DOMAIN ls
    /\ LET obj == JSONparse(ls[key])
       IN  \A f \in DOMAIN data : f \in DOMAIN obj /\ obj[f] = data[f]

(* C1: a sequence of saveFormData calls on one write-key, made while signed in
   and each less than the debounce interval after the previous one, causes
   exactly one flush, and that flush carries the value of the last call:
   never two flushes, never a flush with an earlier value, and a flush once
   none of the sequence's timeouts is scheduled any more. *)
C1_OneFlushPerRapidSequence ==
    \A k \in WriteKeys :
        /\ burst[k].flushes <= 1
        /\ burst[k].flushes = 1 => burst[k].flushed = burst[k].lastValue
        /\ (burst[k].lastValue # "" /\ ~\E t \in timers : t.key = k /\ t.cur)
              => burst[k].flushes >= 1

(* C2: a field change recorded while no identity is present schedules no
   timeout, starts no gateway call and leaves the remote store as it was, and
   when the call returns the backlog entry of its document holds exactly the
   value passed. *)
C2_OfflineSaveGoesToBacklog ==
    [][last'.op = "saveFormDataOffline"
         => /\ userId = NULL
            /\ timers' = timers
            /\ pendingWrites' = pendingWrites
            /\ inflight' = inflight
            /\ remote' = remote
            /\ BacklogHolds(localStorage', last'.key, last'.data)]_vars

C2_Witness ==
    /\ last.op = "saveFormDataOffline"
    /\ userId = NULL
    /\ last.value = "Y"
    /\ BacklogHolds(localStorage, last.key, last.data)

(* C3: when the remote write of a debounced flush fails, then as soon as the
   flush has finished the backlog entry of its document holds exactly the
   value that failed to flush, and the sync status is Error. *)
C3_FailedFlushGoesToBacklog ==
    last.op = "flushRejected"
        => /\ syncStatus = "error"
           /\ BacklogHolds(localStorage, last.key, last.data)

(* The failed flush carried Y while the backlog might still have held X. *)
C3_Witness ==
    /\ last.op = "flushRejected"
    /\ last.value = "Y"
    /\ syncStatus = "error"
    /\ BacklogHolds(localStorage, last.key, last.data)

(* C11: once the identity is lost no debounce timeout is left scheduled, so
   that no edit pending at that moment can cause a remote write or a backlog
   write later. *)
C11_TimersCancelledOnIdentityLoss == userId = NULL => timers = {}

(* C15: the sync status of a newly constructed coordinator, before any event,
   is "offline". *)
C15_InitialStatusOffline == last.op = "init" => syncStatus = "offline"

(* C20: recording a change for one write-key leaves the scheduled timeouts of
   every other write-key as they were; while the gateway call of one key is
   awaited, a due timeout of another key can fire (the due timeouts fire in
   the order in which they were scheduled) and an awaited call of
   another key can resolve; and the settling of one key's flush touches neither the
   timeouts, nor the awaited calls, nor the pending slots of the other keys. *)
C20_KeysIndependent ==
    /\ [][last'.op = "saveFormData"
            => \A t \in timers : t.key # last'.key => t \in timers']_vars
    /\ [](\A w \in inflight :
            /\ \A t \in timers :
                  (t.left = 0 /\ t.key # w.key /\ \A u \in timers : u.left = 0 => u.id >= t.id)
                      => ENABLED FlushStart(t)
            /\ \A v \in inflight : v.key # w.key => ENABLED FlushResolved(v))
    /\ [][last'.op \in {"flushResolved", "flushRejected"}
            => \E w \in inflight :
                  /\ inflight' = inflight \ {w}
                  /\ timers' = timers
                  /\ \A k \in DOMAIN pendingWrites \ {w.key} :
                        k \in DOMAIN pendingWrites' /\ pendingWrites'[k] = pendingWrites[k]]_vars

(* The flush of one key has completed while the gateway call of another key,
   made earlier, is still awaited. *)
C20_Witness ==
    /\ last.op = "flushResolved"
    /\ \E w \in inflight : w.key # last.key /\ w.id < nextId
    /\ last.key \notin DOMAIN pendingWrites

(* C9: at most one scheduled, not yet fired debounce timeout per write-key. *)
C9_OneTimerPerKey ==
    \A k \in WriteKeys : Cardinality({t \in timers : t.key = k}) <= 1

-----------------------------------------------------------------------------
(* Properties of reconciliation, checked under SpecReconcile *)

(* What the remote document of the signed-in user holds for a backlog key. *)
RemoteValue(key) ==
    LET path == UserPath(userId)
    IN  IF path \in DOMAIN remote /\ RemoteField(key) \in DOMAIN remote[path]
        THEN remote[path][RemoteField(key)]
        ELSE JSNull

(* C4: a pass over N backlog entries of which the gateway accepted M and
   rejected N-M has, when it ends, deleted the accepted ones, left the
   rejected ones in place, and left the status at "synced" if and only if
   none was rejected. *)
C4_PartialReconcileStatus ==
    last.done /\ last.pass.keys # {}
        => /\ \A k \in last.pass.accepted \ last.pass.rejected : k \notin DOMAIN localStorage
           /\ \A k \in last.pass.rejected : k \in DOMAIN localStorage
           /\ syncStatus = "synced" <=> last.pass.rejected = {}

(* C5: a step removes an entry of a recognised namespace from the storage
   only if it is the continuation of a pass whose gateway write of that
   entry's key resolved, and the payload written is the one removed. *)
C5_RemovedOnlyAfterConfirmedWrite ==
    [][\A k \in LocalKeys(localStorage) :
          k \notin DOMAIN localStorage'
              => /\ last'.op = "passResolved"
                 /\ last'.key = k
                 /\ last'.data = JSONparse(localStorage[k])]_vars

(* C6: at most one reconciliation pass is awaiting the gateway at any time. *)
C6_OnePassAtATime == Cardinality(passes) <= 1

(* C7: when a pass has written the backlog payload of a key for which a newer
   payload had been recorded since the backlog entry was made, and no save of
   that key is still in flight, the remote document holds the payload recorded
   last. *)
C7_SupersedeRule ==
    /\ last.op = "passResolved"
    /\ last.note.superseded
    /\ userId # NULL
    /\ ~\E w \in saves : w.key = last.key
    => RemoteValue(last.key) = recorded[last.key]

(* C8: when the backlog entry of a key was rewritten while a pass awaited its
   write of that key, then once that write has resolved the payload the
   storage held is either still in the backlog or in the remote document. *)
C8_ConcurrentBacklogWriteKept ==
    /\ last.op = "passResolved"
    /\ last.note.overwritten
    /\ userId # NULL
    => \/ JSONparse(getItem(localStorage, last.key)) = last.note.held
       \/ RemoteValue(last.key) = last.note.held

(* C10: a rejected write of a pass leaves the entry it was for as it was, and
   the pass goes on: when the pass ends the loop body has run exactly once for
   every key enumerated at its start, with exactly one gateway call for every
   key that has a remote write. *)
C10_FailureDoesNotAbortPass ==
    /\ last.op = "passRejected"
          => JSONparse(getItem(localStorage, last.key)) = last.note.held
    /\ last.done
          => \A k \in last.pass.keys :
                /\ last.pass.visits[k] = 1
                /\ HasRemoteWrite(k) => last.pass.attempts[k] = 1

(* A pass ended after one of its writes was rejected and a later entry was
   visited; the rejected entry is still in the backlog. *)
C10_Witness ==
    /\ last.done
    /\ last.op = "passRejected"
    /\ last.pass.afterFailure # {}
    /\ \E k \in last.pass.afterFailure : HasRemoteWrite(k) /\ last.pass.attempts[k] = 1
    /\ \A k \in last.pass.rejected : k \in DOMAIN localStorage

-----------------------------------------------------------------------------
(* Properties of status notification, checked under SpecNotify and SpecThrow *)

(* The segments that continue an earlier event: what they deliver is added to
   what the listeners were told since that event. *)
ContinuationOps ==
    {"other", "initialSyncTimeout", "reconnectTimeout", "flushStart", "flushResolved",
     "flushRejected", "flushResolvedThrown", "flushRejectedThrown", "saveResolved",
     "saveRejected", "saveResolvedThrown", "saveRejectedThrown", "passResolved",
     "passRejected", "flushRejectedQuota", "saveRejectedQuota", "quotaExceeded",
     "uploadError", "uploadComplete", "downloadUrlResolved", "downloadUrlRejected",
     "setResolved", "setRejected"}

(* The listener invocations of the step from the unprimed to the primed state *)
Told ==
    IF last'.op \in ContinuationOps
    THEN SubSeq(delivered', Len(delivered) + 1, Len(delivered'))
    ELSE delivered'

(* told is one invocation of every listener of ls, in the order of ls, with status st *)
OneRound(told, ls, st) ==
    /\ Len(told) = Len(ls)
    /\ \A i \in 1..Len(ls) : told[i].listener = ls[i] /\ told[i].status = st

(* The storage keys of the document a write-key belongs to *)
StorageKeysOf(writeKey) ==
    {StorageKey(c, d) : c \in {x \in Collections : \E d \in DocIds, f \in FieldNames :
                                                     WriteKey(x, d, f) = writeKey},
                        d \in {y \in DocIds : \E c \in Collections, f \in FieldNames :
                                                     WriteKey(c, y, f) = writeKey}}

(* The listeners were told "syncing" by a saveFormData call and since then only
   on behalf of the timeout that call scheduled. *)
SingleChangeFlushed ==
    /\ last.op = "flushResolved"
    /\ syncListeners # <<>>
    /\ delivered # <<>>
    /\ delivered[1].by # 0
    /\ delivered[1].status = "syncing"
    /\ \A i \in 1..Len(delivered) : delivered[i].by = delivered[1].by

SyncingThenSynced ==
    LET n == Len(syncListeners)
    IN  /\ OneRound(SubSeq(delivered, 1, n), syncListeners, "syncing")
        /\ OneRound(SubSeq(delivered, n + 1, Len(delivered)), syncListeners, "synced")

(* C13: when the flush of a single field change, recorded while signed in and
   followed by no other event, has succeeded, the listeners have been told
   "syncing" and then "synced" and nothing else, and the backlog holds no
   entry for the document of that key. *)
C13_SingleChangeScenario ==
    SingleChangeFlushed
        => /\ SyncingThenSynced
           /\ \A k \in StorageKeysOf(last.key) : k \notin DOMAIN localStorage

(* C13, amended: in that scenario the listeners have been told "syncing" and
   then "synced" and nothing else, and neither the call nor the firing of its
   timeout nor the success of its flush touches the backlog: it holds no
   entry for that key afterwards if it held none when the change was
   recorded. *)
C13_SingleChangeLeavesBacklog ==
    /\ [](SingleChangeFlushed => SyncingThenSynced)
    /\ [][last'.op \in {"saveFormData", "other", "flushStart", "flushResolved"}
            => localStorage' = localStorage]_vars

C13_Witness ==
    /\ SingleChangeFlushed
    /\ SyncingThenSynced
    /\ Len(delivered) = 2 * Len(syncListeners)
    /\ \A k \in StorageKeysOf(last.key) : k \notin DOMAIN localStorage

(* C14: recording a field change while signed out leaves the sync status as it
   was and invokes no listener. *)
C14_OfflineSaveIsSilent ==
    [][last'.op = "saveFormDataOffline"
          => syncStatus' = syncStatus /\ delivered' = <<>>]_vars

(* A change was recorded while signed out, with a listener registered, and the
   status is still the "offline" the sign-out left. *)
C14_Witness ==
    /\ last.op = "saveFormDataOffline"
    /\ syncListeners # <<>>
    /\ syncStatus = "offline"
    /\ delivered = <<>>

(* The edges of the status machine *)
Edge(from, to) ==
    \/ to = "offline"
    \/ <<from, to>> \in {<<"offline", "syncing">>, <<"syncing", "synced">>,
                          <<"syncing", "error">>, <<"error", "syncing">>}

(* C16: every change of the sync status follows one of the edges offline ->
   syncing, syncing -> synced, syncing -> error, error -> syncing, or any ->
   offline. *)
C16_StatusEdges == [][syncStatus' # syncStatus => Edge(syncStatus, syncStatus')]_vars

(* C17: a step that changes the status invokes the listeners; whatever a step
   delivers is, per notification, one invocation of every registered listener
   in registration order, the last of them with the status the step leaves;
   addSyncListener registers at the end of the order and removeSyncListener
   leaves no registration of its callback. *)
C17_ListenersInOrder ==
    [][LET n == Len(syncListeners)
       IN  /\ syncStatus' # syncStatus /\ n > 0 => Told # <<>>
           /\ Told # <<>>
                 => /\ n > 0
                    /\ Len(Told) % n = 0
                    /\ \A r \in 0..((Len(Told) \div n) - 1) :
                          OneRound(SubSeq(Told, r * n + 1, r * n + n), syncListeners,
                                   Told[r * n + 1].status)
                    /\ Told[Len(Told)].status = syncStatus'
           /\ last'.op = "addSyncListener"
                 => syncListeners' = Append(syncListeners, last'.key)
           /\ last'.op = "removeSyncListener"
                 => /\ \A i \in 1..Len(syncListeners') : syncListeners'[i] # last'.key
                    /\ Len(syncListeners') =
                          Cardinality({i \in 1..n : syncListeners[i] # last'.key})]_vars

(* Two different listeners are registered and the last notification reached
   them in the order of their registration. *)
C17_Witness ==
    /\ Len(syncListeners) = 2
    /\ syncListeners[1] # syncListeners[2]
    /\ Len(delivered) = 2
    /\ delivered[1].listener = syncListeners[1]
    /\ delivered[2].listener = syncListeners[2]
    /\ delivered[2].status = syncStatus

(* C18: when the gateway call of a flush has failed, every registered listener
   has been told "error", also those registered after one that throws; the
   backlog holds the value that failed and the pending slot of the timeout is
   cleared. *)
C18_ThrowingListenerIsolated ==
    last.op \in {"flushRejected", "flushRejectedThrown"} /\ delivered # <<>>
        => /\ OneRound(SubSeq(delivered, Len(delivered) - Len(syncListeners) + 1, Len(delivered)),
                       syncListeners, "error")
           /\ BacklogHolds(localStorage, last.key, last.data)
           /\ ~\E k \in DOMAIN pendingWrites : pendingWrites[k] = delivered[Len(delivered)].by

(* C19: every saveFormData call made while signed in tells every listener
   "syncing", whatever the status was, and every completion of a flush tells
   every listener "synced" or "error". *)
C19_NoNotificationSkipped ==
    [][/\ last'.op = "saveFormData" => OneRound(Told, syncListeners, "syncing")
       /\ last'.op = "flushResolved" => OneRound(Told, syncListeners, "synced")
       /\ last'.op = "flushRejected" => OneRound(Told, syncListeners, "error")]_vars

(* A change was recorded while the status was already "syncing", and the
   listener was told "syncing" again. *)
C19_Witness ==
    /\ last.op = "saveFormData"
    /\ delivered # <<>>
    /\ delivered[1].from = "syncing"
    /\ delivered[1].status = "syncing"

-----------------------------------------------------------------------------
(* Properties of sign-in and reconnection, checked under SpecConnect *)

(* C12: whenever an identity is present and the backlog holds entries, the
   backlog is eventually empty (or the identity is lost again), without the
   application calling forceSync. *)
C12_BacklogDrainedAfterLogin ==
    [](userId # NULL /\ LocalKeys(localStorage) # {}
          => <>(LocalKeys(localStorage) = {} \/ userId = NULL))

-----------------------------------------------------------------------------
(* Properties of the target of a flush, checked under SpecDebounce *)

(* C21: the gateway call of a flush is made against the document docId of the
   collection of its change, with the fields {fieldName: value, lastUpdated};
   two calls for changes that differ in collection or document id do not write
   the same field of the same remote document. *)
C21_FlushWritesItsDocument ==
    /\ \A w \in inflight :
          /\ w.path = w.collection \o "/" \o w.docId
          /\ w.data = Assign(Field(w.fieldName, w.value), Field("lastUpdated", ISONow))
    /\ \A v, w \in inflight :
          v.collection # w.collection \/ v.docId # w.docId
              => ~(v.path = w.path /\ v.fieldName = w.fieldName)

-----------------------------------------------------------------------------
(* Properties of a storage that rejects writes, checked under SpecQuota *)

(* C22: when localStorage rejects the fallback write of a field change, on the
   signed-out path of saveFormData or in the catch block of a flush, a save
   call ends in that step with a rejected promise or with an error result. *)
C22_StorageRejectionReachesCaller ==
    [][last'.op \in {"saveFormDataOfflineQuota", "flushRejectedQuota"}
          => \/ last'.result.state = "rejected"
             \/ /\ last'.result.state = "fulfilled"
                /\ "error" \in DOMAIN last'.result.value]_vars

-----------------------------------------------------------------------------
(* Properties of the backlog of field changes, checked under SpecBacklog *)

(* What the backlog holds for the field change (collection, docId, fieldName):
   the set of its value, empty when it holds none. *)
BacklogValue(ls, collection, docId, fieldName) ==
    LET key == StorageKey(collection, docId)
    IN  IF key \in DOMAIN ls /\ fieldName \in DOMAIN JSONparse(ls[key])
        THEN {JSONparse(ls[key])[fieldName]}
        ELSE {}

(* C23: a fallback write of a field change, made while signed out or after a
   failed flush, leaves the backlog holding the value written for that
   write-key, whatever it held before, and leaves what it holds for every
   other write-key as it was, other fields of the same document included. *)
C23_BacklogIsMapFromWriteKey ==
    [][last'.op \in {"saveFormDataOffline", "flushRejected"}
          => /\ BacklogValue(localStorage', last'.target[1], last'.target[2], last'.target[3])
                   = {last'.value}
             /\ \A c \in Collections, d \in DocIds, f \in BacklogFields :
                   <<c, d, f>> # last'.target
                       => BacklogValue(localStorage', c, d, f) = BacklogValue(localStorage, c, d, f)]_vars

(* The failed flush of one field stored Y while the backlog held X for another
   field of the same document, and still holds it. *)
C23_Witness ==
    /\ last.op = "flushRejected"
    /\ last.value = "Y"
    /\ BacklogValue(localStorage, last.target[1], last.target[2], last.target[3]) = {"Y"}
    /\ \E f \in BacklogFields \ {last.target[3]} :
          BacklogValue(localStorage, last.target[1], last.target[2], f) = {"X"}

-----------------------------------------------------------------------------
(* Properties of document uploads, checked under SpecUpload *)

(* C24: uploadDocument called with no file, with a file larger than 5 MB or
   with a file whose type is not in the allowed list is rejected in the call
   itself: no upload task is started, the file storage, the database and the
   backlog are left as they were. *)
C24_InvalidUploadWritesNothing ==
    [][/\ last'.op \in {"uploadDocument", "uploadInvalid", "uploadNoUser"}
       /\ \/ last'.data = NoFile
          \/ last'.data.size > 5 * 1024 * 1024
          \/ last'.data.type \notin ALLOWED_TYPES
       => /\ last'.result.state = "rejected"
          /\ uploads' = uploads
          /\ blobs' = blobs
          /\ remote' = remote
          /\ localStorage' = localStorage]_vars

(* A signed-in user's upload of a file of an allowed type that is one byte
   too large was rejected, with another upload of theirs still under way. *)
C24_Witness ==
    /\ last.op = "uploadInvalid"
    /\ userId # NULL
    /\ last.data # NoFile
    /\ last.data.size = 5 * 1024 * 1024 + 1
    /\ last.data.type \in ALLOWED_TYPES
    /\ last.result.state = "rejected"
    /\ uploads # {}

(* C25: every upload that ends, with success or with a failure, invokes the
   registered sync-status listeners. *)
C25_UploadOutcomeNotified ==
    [][/\ last'.op \in {"uploadInvalid", "uploadNoUser", "uploadError", "downloadUrlRejected",
                        "setResolved", "setRejected"}
       /\ syncListeners # <<>>
       => Told # <<>>]_vars

-----------------------------------------------------------------------------
(* Properties of a repeated reconciliation, checked under SpecReplay *)

(* C26: forceSync called right after a pass that ended without a rejected
   write calls the gateway for nothing and leaves the remote store and the
   backlog as that pass left them; and once a write of a pass has been
   accepted, the same write repeated leaves the remote store as it is. *)
C26_ReplayIsIdempotent ==
    /\ [][last.done /\ last.pass.rejected = {} /\ userId # NULL /\ last'.op = "forceSync"
            => /\ passes' = {}
               /\ last'.done
               /\ last'.pass.attempts = [k \in last'.pass.keys |-> 0]
               /\ remote' = remote
               /\ localStorage' = localStorage]_vars
    /\ [][last'.op = "passResolved"
            => \A p \in passes :
                  remote' = updateDocument(remote, p.path, Field(RemoteField(p.key), p.data))
                      => updateDocument(remote', p.path, Field(RemoteField(p.key), p.data)) = remote']_vars

(* A second forceSync has run to its end without a gateway call, after a pass
   whose write the gateway accepted emptied the backlog. *)
C26_Witness ==
    /\ last.op = "forceSync"
    /\ last.done
    /\ last.pass.keys = {}
    /\ userId # NULL
    /\ UserPath(userId) \in DOMAIN remote
    /\ LocalKeys(localStorage) = {}

-----------------------------------------------------------------------------
(* Properties of the flushes of one write-key, checked under SpecDebounce *)

(* The gateway calls of a key's flushes leave in the order of recording: no
   timeout of the key still scheduled is older than a call already made. *)
FlushesInRecordingOrder ==
    \A w \in inflight, t \in timers : t.key = w.key => t.id > w.id

(* C27: at most one gateway call of a write-key is awaited at any time, the
   calls of a key are made in the order in which their values were recorded,
   and when a flush has succeeded and no flush of its key is scheduled, awaited
   or has failed into the backlog, a remote document holds the value recorded
   last for the key. *)
C27_OneWriteInFlightPerKey ==
    /\ \A k \in WriteKeys : Cardinality({w \in inflight : w.key = k}) <= 1
    /\ FlushesInRecordingOrder
    /\ (/\ last.op = "flushResolved"
        /\ ~\E t \in timers : t.key = last.key
        /\ ~\E w \in inflight : w.key = last.key
        /\ BacklogValue(localStorage, last.target[1], last.target[2], last.target[3]) = {})
          => \E path \in DOMAIN remote :
                /\ last.target[3] \in DOMAIN remote[path]
                /\ remote[path][last.target[3]] = burst[last.key].lastValue

-----------------------------------------------------------------------------
(* Properties of the whole-payload saves, checked under SpecReconcile *)

(* The payload of the save that ended last is stored under its fallback key. *)
StoredLocally(ls, l) ==
    /\ l.key \in DOMAIN ls
    /\ JSONparse(ls[l.key]) = l.data

(* C28: when saveCompleteFormData, saveProgressData or saveSettings ends, its
   payload is in the remote document it wrote to or under its fallback key:
   the step of an accepted write leaves the payload in the remote document
   and returns success: true; the step of a rejected write and the signed-out
   call leave it under the fallback key and do not return success: true. *)
C28_SavedRemotelyOrLocally ==
    [][/\ last'.op = "saveResolved"
            => /\ \E w \in saves \ saves' :
                     /\ w.key = last'.key
                     /\ w.path \in DOMAIN remote'
                     /\ RemoteField(w.key) \in DOMAIN remote'[w.path]
                     /\ remote'[w.path][RemoteField(w.key)] = last'.data
               /\ last'.result = Fulfilled([success |-> TRUE])
       /\ last'.op \in {"saveRejected", "saveOffline"}
            => /\ StoredLocally(localStorage', last')
               /\ remote' = remote
               /\ last'.result.state = "fulfilled"
               /\ last'.result.value # [success |-> TRUE]
       /\ last'.op = "saveRejected"
            => /\ "success" \in DOMAIN last'.result.value
               /\ last'.result.value.success = FALSE]_vars

(* A signed-in save whose write the gateway rejected has returned success:
   false and its payload Y is under its fallback key, not in the remote store. *)
C28_Witness ==
    /\ last.op = "saveRejected"
    /\ userId # NULL
    /\ last.data = [f \in FieldNames |-> "Y"]
    /\ StoredLocally(localStorage, last)
    /\ last.result.value.success = FALSE
    /\ RemoteValue(last.key) # last.data

-----------------------------------------------------------------------------
(* Properties of the fate of a recorded value, checked under SpecFlush *)

(* The value is in a remote document's field or in the backlog of its key. *)
Kept(collection, docId, fieldName, value) ==
    \/ \E path \in DOMAIN remote :
          fieldName \in DOMAIN remote[path] /\ remote[path][fieldName] = value
    \/ BacklogValue(localStorage, collection, docId, fieldName) = {value}

(* C29: a value recorded by saveFormData for a write-key is eventually in the
   remote store or in the backlog, unless a different value is recorded for the
   key before its timeout fires (the debounce rule), whatever sign-in and
   sign-out and whatever flushes of the same key come in between. *)
C29_LastValueNotLost ==
    \A d \in DocIds, f \in FieldNames, v \in Values :
        (/\ last.op \in {"saveFormData", "saveFormDataOffline"}
         /\ last.target = <<"forms", d, f>>
         /\ last.value = v)
            ~> \/ Kept("forms", d, f, v)
               \/ burst[WriteKey("forms", d, f)].lastValue \notin {v, ""}

(* Y was recorded while signed in after X had been written remotely, the user
   signed out, and the failed flush of Y has put it into the backlog. *)
C29_Witness ==
    /\ last.op = "flushRejected"
    /\ last.value = "Y"
    /\ userId = NULL
    /\ Kept(last.target[1], last.target[2], last.target[3], "Y")
    /\ \E path \in DOMAIN remote : remote[path][last.target[3]] = "X"

-----------------------------------------------------------------------------
(* Properties of the identity a write is made for, checked under SpecDebounce *)

(* C30: the gateway call of a flush is made against the document of the
   identity that was signed in when its change was recorded, also when the
   identity changed before the timeout fired. *)
C30_FlushTargetsRecordingIdentity ==
    \A w \in inflight : w.path = UserPath(w.uid)

-----------------------------------------------------------------------------
(* C31: whenever the status is "synced" ('All changes saved') while an identity
   is present, no debounce timeout is scheduled and no flush awaits the gateway
   for any key. *)
C31_SyncedMeansNothingOutstanding ==
    (syncStatus = "synced" /\ userId # NULL) =>
        /\ timers = {}
        /\ inflight = {}

-----------------------------------------------------------------------------
(* C32: once the auth observer has reported that no identity is present, the
   status is "offline" for as long as userId is null: no timeout scheduled
   before (a pending flush, the delayed notice of _startSync) changes it to
   "synced", "syncing" or "error". *)
C32_OfflineWhileNoIdentity ==
    (authObserved /\ userId = NULL) => syncStatus = "offline"

-----------------------------------------------------------------------------
(* DataSync.getSyncStatus *)
getSyncStatus ==
    [status |-> syncStatus, userId |-> userId,
     pendingWrites |-> Cardinality(DOMAIN pendingWrites)]

(* The write-keys that have a debounce timeout scheduled or a flush that
   awaits the gateway *)
OutstandingKeys ==
    {k \in WriteKeys : (\E t \in timers : t.key = k) \/ (\E w \in inflight : w.key = k)}

(* C33: the pendingWrites count reported by getSyncStatus equals the number of
   write-keys that have a debounce timeout scheduled or a flush not yet
   completed; so it is 0 only when no timeout is scheduled, and it is 0 when
   every flush has completed. *)
C33_PendingCountIsOutstandingKeys ==
    getSyncStatus.pendingWrites = Cardinality(OutstandingKeys)

-----------------------------------------------------------------------------
(* C34: forceSync called while no identity is present returns false and changes
   nothing: it starts no gateway write, invokes no listener, leaves the status
   as it was and leaves every backlog entry in place. *)
C34_ForceSyncWithoutIdentityIsNoOp ==
    [][(userId = NULL /\ calls' = calls + 1 /\ last'.op \in {"forceSyncNoUser", "forceSync", "forceSyncThrown"}) =>
          /\ last'.op = "forceSyncNoUser"
          /\ last'.result = Fulfilled(JSFalse)
          /\ passes' = passes /\ saves' = saves /\ inflight' = inflight
          /\ remote' = remote
          /\ delivered' = <<>>
          /\ syncStatus' = syncStatus
          /\ localStorage' = localStorage
          /\ timers' = timers /\ delayed' = delayed /\ pendingWrites' = pendingWrites
          /\ unsubscribers' = unsubscribers /\ syncListeners' = syncListeners
          /\ userId' = userId]_vars

(* forceSync has returned without an identity while the backlog held an entry,
   a listener was registered and the status was "offline" *)
C34_Witness ==
    /\ last.op = "forceSyncNoUser"
    /\ last.result = Fulfilled(JSFalse)
    /\ userId = NULL
    /\ syncStatus = "offline"
    /\ Len(syncListeners) > 0
    /\ LocalKeys(localStorage) # {}

-----------------------------------------------------------------------------
(* The data categories _startSync subscribes to, one handle each *)
Categories == {"profile", "forms", "documents", "settings"}

(* The subscriptions of a category whose handle this.unsubscribers holds: every
   _startSync since the last _stopSync has added one. *)
ActiveSubscriptions(category) == unsubscribers \div SubscriptionsPerStart

(* C35: at any time there is at most one active remote subscription per data
   category, whatever the sequence of sign-ins and online events; while no
   identity is present the list of unsubscribe handles is empty. *)
C35_OneSubscriptionPerCategory ==
    /\ \A category \in Categories : ActiveSubscriptions(category) <= 1
    /\ userId = NULL => unsubscribers = 0

-----------------------------------------------------------------------------
(* Properties of the order of an upload's writes, checked under SpecUpload *)

(* The metadata records of the database whose file the storage does not hold *)
MetadataWithoutBlob ==
    {p \in DOMAIN remote :
        "storagePath" \in DOMAIN remote[p] /\ remote[p].storagePath \notin blobs}

(* The database holds every field of the metadata record `data` *)
MetadataStored(data) ==
    \E p \in DOMAIN remote :
        \A k \in DOMAIN data : k \in DOMAIN remote[p] /\ remote[p][k] = data[k]

(* C36: a document's metadata record is written to the database only after its
   file has been stored; an upload that fails, or one attempted with nobody
   signed in, rejects and writes no metadata record; and the promise of
   uploadDocument is resolved with success only when both the file and the
   metadata record are stored. *)
C36_MetadataOnlyAfterBlob ==
    /\ [](MetadataWithoutBlob = {})
    /\ [][last'.op \in {"uploadError", "uploadNoUser"}
            => last'.result.state = "rejected" /\ remote' = remote]_vars
    /\ [](last.op \in {"uploadDocument", "uploadComplete", "downloadUrlResolved", "setResolved"}
            /\ last.result.state = "fulfilled"
            => /\ last.op = "setResolved"
               /\ last.result.value.success
               /\ last.result.value.data.storagePath \in blobs
               /\ MetadataStored(last.result.value.data))

(* An upload has ended with success: its file and its metadata are stored. *)
C36_Witness ==
    /\ last.op = "setResolved"
    /\ last.result.state = "fulfilled"
    /\ last.result.value.data.storagePath \in blobs
    /\ MetadataStored(last.result.value.data)

-----------------------------------------------------------------------------
(* Properties of the Firebase core, checked under SpecFirebase *)

GetterOps == {"getFirebaseAuth", "getFirebaseDb", "getFirebaseStorage"}

(* The instance a getter is about *)
InstanceOf(op) ==
    IF op = "getFirebaseAuth" THEN firebaseCore.auth
    ELSE IF op = "getFirebaseDb" THEN firebaseCore.db
    ELSE firebaseCore.storage

(* C38: initializeFirebase initializes the SDK at most once: once an attempt
   has succeeded, no later call reaches the SDK or changes the instances, and a
   call made then returns the existing instances; getFirebaseAuth,
   getFirebaseDb and getFirebaseStorage return their instance exactly when an
   initialization has succeeded and throw otherwise, also after an attempt
   that failed. *)
C38_InitializedAtMostOnce ==
    /\ [][firebaseCore.isFirebaseInitialized =>
            /\ firebaseCore' = firebaseCore
            /\ trace'.initializeAppCalls = trace.initializeAppCalls]_vars
    /\ [][(firebaseCore.isFirebaseInitialized /\ calls' = calls + 1
             /\ last'.op \in {"initializeFirebase", "initializeFirebaseAgain"}) =>
            last'.result = ReturnedValue(Instances(firebaseCore))]_vars
    /\ [](last.op \in GetterOps =>
            IF firebaseCore.isFirebaseInitialized
            THEN /\ last.result = ReturnedValue(InstanceOf(last.op))
                 /\ InstanceOf(last.op) # JSNull
            ELSE last.result = Thrown(NotInitializedError))

(* initializeFirebase was called with another configuration after a successful
   initialization and returned the instances of the first one *)
C38_Witness ==
    /\ last.op = "initializeFirebaseAgain"
    /\ last.key = "other-project"
    /\ last.result.state = "returned"
    /\ last.result.value.app = Instance("app", firebaseConfig)
    /\ trace.initializeAppCalls >= 2

-----------------------------------------------------------------------------
(* Properties of the AuthManager's initialization, checked under SpecAuthInit *)

(* C37: under any interleaving of AuthManager calls that begin with
   ensureInitialized (signIn, signUp, signOut, resetPassword), _doInitialize
   runs at most once and the auth-state observer is registered at most once,
   and a caller goes on only when the initialization has finished. *)
C37_InitializedOnce ==
    /\ trace.doInitializeRuns <= 1
    /\ trace.observers <= 1
    /\ last.op \in {"ensureInitializedReady", "ensureInitializedResolved"} =>
          /\ authManager.initialized
          /\ authManager.auth # JSNull
          /\ authManager.initPromise = "fulfilled"
          /\ trace.doInitializeRuns = 1
          /\ trace.observers = 1

(* A caller has gone on after an initialization that had to wait for
   FirebaseCore, while another caller still awaits the same promise *)
C37_Witness ==
    /\ last.op = "ensureInitializedResolved"
    /\ authManager.attempts > 0
    /\ authCalls # {}
    /\ trace.doInitializeRuns = 1
    /\ trace.observers = 1

====
